---- MODULE Spec2Model ----
(***************************************************************************)
(* Model of gitscan's concurrent repository scanner                        *)
(* (src/gitscan/scanner/read.py): read_repo_parallel fans read_repo out    *)
(* over a multiprocessing pool, read_repo fetches every remote through     *)
(* git_fetch_with_timeout, which polls the process tree of a `git fetch`   *)
(* subprocess against two timeouts and a shared stop event.                *)
(* Beside it: the directory walk of find_git_repos (scanner/search.py),    *)
(* the scan requests of the table model (model_view), the two files of     *)
(* the settings directory (scanner/settings.py), extract_repo_name, and    *)
(* the finished callbacks of the table model and the main window.          *)
(*                                                                         *)
(* Time is counted in poll periods.  Python's None is the empty sequence   *)
(* and a present value x is <<x>>.                                         *)
(***************************************************************************)
EXTENDS Integers, Sequences, FiniteSets, TLC

\* ---------------------------------------------------------------- bounds
MaxPaths == 2       \* longest list handed to read_repo_parallel
MaxPool == 2        \* largest pool_size
MaxRemotes == 2     \* most remotes a repository declares
MaxSpawn == 2       \* most descendants one fetch subprocess ever spawns
TimeoutA == 2       \* timeout_A_s (overall), in poll periods
TimeoutB == 1       \* timeout_B_s (idle), in poll periods
MaxSleep == 1       \* longest time one time.sleep(poll_period_s) takes
MaxBranches == 2    \* most local branches of a repository
MaxCommits == 1     \* most commits by which a branch leads or trails
MaxExclude == 1     \* most entries of find_git_repos' exclude_dirs
MaxRequests == 2    \* most scans requested one after the other
MaxEntries == 2     \* longest list handed to save_repo_list

Workers == 1..MaxPool

None == << >>
Some(x) == <<x>>

\* class FetchStatus(Flag)
FetchStatus == {"TIMEOUT", "ERROR", "CANCEL", "OK"}

UNFETCHED_REMOTE_WARNING == "Remotes not fetched"
FETCH_FAILED_WARNING == "Fetch failed"
FETCH_TIMEOUT_WARNING == "Fetch timed-out"

\* psutil process states a status() query can report
Statuses == {"running", "idle", "sleeping", "zombie"}

\* the_process is entry 0 of the tree, descendants are 1..MaxSpawn
TheProcess == 0

DETACHED_BRANCH_DISPLAY_NAME == "DETACHED"
NO_BRANCH_DISPLAY_NAME == "-"

\* What HEAD holds: the name of the branch it points to, or a commit id
\* when it is detached.
BranchNames == {"main", "dev"}
DetachedAt == "4b825dc"
Heads == BranchNames \cup {DetachedAt}

\* One local branch as lines 260..267 find it.  tracking: "none" = no
\* tracking branch configured, "gone" = configured and missing from
\* repo.refs, "ok" = configured and among repo.refs; ahead and behind are
\* the numbers of commits of the ranges tracking..branch and
\* branch..tracking.
Branch(tracking, ahead, behind) ==
    [tracking |-> tracking, ahead |-> ahead, behind |-> behind]

BranchKinds ==
    {Branch("none", 0, 0), Branch("gone", 0, 0)}
        \cup {Branch("ok", a, b) : a \in 0..MaxCommits, b \in 0..MaxCommits}

BranchLists(kinds) ==
    UNION {[1..n -> kinds] : n \in 0..MaxBranches}

\* What the index, the working tree and the stash hold.
Trees ==
    [index_dirty : BOOLEAN, tree_dirty : BOOLEAN, untracked : 0..1,
     stashed : BOOLEAN]

CleanTree ==
    [index_dirty |-> FALSE, tree_dirty |-> FALSE, untracked |-> 0,
     stashed |-> FALSE]

\* What Repo(path) and the metadata queries find on disk for one path.
\* fault: "open" = Repo(path) raises, "late" = a query of lines 260..267
\* raises, "none" = no query raises.  helpers = how many descendants the
\* transport of the repository's remotes starts at most during one fetch.
RepoConfig(fault, bare, branches, remote_count, helpers, head, tree) ==
    [fault |-> fault,
     bare |-> bare,
     branch_count |-> Len(branches),
     branches |-> branches,
     remote_count |-> remote_count,
     helpers |-> helpers,
     head |-> head,
     tree |-> tree]

RepoConfigs ==
    [fault : {"none", "open", "late"},
     bare : BOOLEAN,
     branch_count : 0..MaxBranches,
     branches : BranchLists(BranchKinds),
     remote_count : 0..MaxRemotes,
     helpers : 0..MaxSpawn,
     head : Heads,
     tree : Trees]

\* n branches that lead their tracking branches by one commit
PlainBranches(n) == [j \in 1..n |-> Branch("ok", 1, 0)]

\* The repositories explored for a scan of one path: helper processes are
\* started by the fetch of a repository with a single remote.
ReadConfigs ==
    {c \in {RepoConfig(f, b, PlainBranches(n), r, h, "main", CleanTree) :
               f \in {"none", "open", "late"}, b \in BOOLEAN, n \in 0..1,
               r \in 0..MaxRemotes, h \in 0..MaxSpawn} :
        c.helpers > 0 => c.remote_count = 1}

\* The repositories explored for a scan of several paths: unreadable,
\* without remotes, and with one remote whose fetch starts no helper.
ScanConfigs ==
    {c \in {RepoConfig(f, FALSE, PlainBranches(1), r, 0, "main", CleanTree) :
               f \in {"none", "open"}, r \in 0..1} :
        c.fault = "open" => c.remote_count = 0}

\* The repositories explored for the local metadata, read without a
\* remote: any branches, any HEAD, any state of index and working tree.
MetaConfigs ==
    {RepoConfig("none", b, br, 0, 0, "main", CleanTree) :
        b \in BOOLEAN, br \in BranchLists(BranchKinds)}
    \cup
    {RepoConfig("none", b, PlainBranches(n), 0, 0, h, t) :
        b \in BOOLEAN, n \in 0..MaxBranches, h \in Heads, t \in Trees}

VARIABLES
    repos,               \* the repository found on disk at each path
    paths_to_git,        \* the list given to read_repo_parallel
    fetch_remotes,       \* its fetch_remotes argument
    pool_size,           \* its pool_size argument
    stop_event,          \* TRUE iff a stop_event object was passed
    upstream,            \* per path: commits of its origin not yet fetched
    refs,                \* per path: how many of them the tracking refs hold
    is_set,              \* state of that event
    taskqueue,           \* chunks of task indices not yet taken by a worker
    results,             \* result slot per task index
    ready,               \* task indices whose slot is filled
    order,               \* task indices in order of completion
    returned,            \* None while the map runs, then Some(list)
    pc,                  \* per worker: position in read_repo / fetch
    stop_event_global,   \* per worker process: module global _stop_event_global
    reader,              \* per worker: frame of read_repo
    fetch,               \* per worker: frame of git_fetch_with_timeout
    ptable,              \* per worker: OS processes of the current fetch
    log,                 \* per task index: history of its read_repo call
    search_in,           \* find_git_repos: its arguments and the disk
    search,              \* find_git_repos: frame of the running call
    dialogs,             \* the CancellableDialog of every scan requested
    settings_in,         \* the arguments of save_preferences, save_repo_list
    files,               \* the two files of the settings directory
    loaded,              \* None, or Some(what load_settings returned)
    naming,              \* extract_repo_name: its argument and its outcome
    table                \* TableModel and MainWindow: list, rows, dialogs

vars == <<repos, paths_to_git, fetch_remotes, pool_size, stop_event,
          upstream, refs, is_set,
          taskqueue, results, ready, order, returned, pc,
          stop_event_global, reader, fetch, ptable, log,
          search_in, search, dialogs, settings_in, files, loaded, naming,
          table>>

\* The variables of the settings files.
settings == <<settings_in, files, loaded>>

\* The variables of the callers of the scanner.
view == <<naming, table>>

\* What no step of a scan changes: the arguments of read_repo_parallel, the
\* repositories on disk (but for the tracking refs, which the end of a git
\* fetch updates), and the state of the other components.
inputs == <<repos, paths_to_git, fetch_remotes, pool_size, stop_event,
            upstream, refs, search_in, search, dialogs, settings, view>>

\* The variables of a scan (read_repo_parallel and what it runs).
scan == <<repos, paths_to_git, fetch_remotes, pool_size, stop_event,
          upstream, refs, is_set,
          taskqueue, results, ready, order, returned, pc,
          stop_event_global, reader, fetch, ptable, log, dialogs>>

\* ------------------------------------------------------------- helpers
N == Len(paths_to_git)

\* multiprocessing.Pool.map: chunksize, extra = divmod(len, 4 * processes)
ChunkSize(n, procs) ==
    IF n = 0 THEN 0
    ELSE (n \div (4 * procs)) + (IF n % (4 * procs) = 0 THEN 0 ELSE 1)

RECURSIVE Chunks(_, _, _)
Chunks(from, n, size) ==
    IF from > n THEN << >>
    ELSE LET to == IF from + size - 1 > n THEN n ELSE from + size - 1
         IN  <<[j \in 1..(to - from + 1) |-> from + j - 1]>>
             \o Chunks(to + 1, n, size)

NoReader == [chunk |-> << >>, info |-> None, repo |-> "none", remote |-> 0]

\* sinceA = time.time() - startA, sinceB = time.time() - startB;
\* set_at_break records whether the event was set at the iteration that
\* left the loop, expired whether a timeout had expired at it, active
\* whether the iteration under way has seen a running or idle process.
NoFetch == [processes |-> << >>, sinceA |-> 0, sinceB |-> 0,
            timeout |-> FALSE, three_processes |-> FALSE, stop |-> FALSE,
            timeout_A_s |-> TimeoutA, timeout_B_s |-> TimeoutB,
            status |-> None, set_at_break |-> FALSE, expired |-> FALSE,
            active |-> FALSE]

NoProc == [proc |-> "none", returncode |-> None, children |-> {},
           spawned |-> 0]

NoLog == [stop_at_start |-> FALSE, opened |-> FALSE, launches |-> 0,
          outcomes |-> << >>, repo |-> "none", value |-> None]

\* The task index a worker is reading
Task(k) == Head(reader[k].chunk)

\* evt is not None and evt.is_set(), for the worker's _stop_event_global
StopSeen(k) == stop_event_global[k] /\ is_set

StopNotChecked(k) == FALSE

\* line 171: the check at the entry of read_repo
EntryStop(k) == StopSeen(k)

\* lines 234..235: the check before the fetch of each remote
RemoteStop(k) == StopSeen(k)

\* line 113: the check of the poll loop (stop_event is the global, line 241)
PollStop(k) == StopSeen(k)

RECURSIVE SetToSeq(_)
SetToSeq(S) ==
    IF S = {} THEN << >>
    ELSE LET m == CHOOSE x \in S : \A y \in S : x <= y
         IN  <<m>> \o SetToSeq(S \ {m})

\* the_process.children(recursive=True) followed by append(the_process)
Enumerate(k) == SetToSeq(ptable[k].children) \o <<TheProcess>>

Range(s) == {s[j] : j \in 1..Len(s)}

\* Nothing is saved or loaded: there is no settings directory.
\* extract_repo_name is not called.
NoNaming == [pc |-> "off", path_to_git |-> None, raised |-> None,
            value |-> None]

\* The window is not open.
NoTable == [pc |-> "off", repo_list |-> << >>, repo_data |-> << >>,
           cd |-> None, window_cd |-> None, emitted |-> None,
           before |-> None, last |-> None]

NoView == naming = NoNaming /\ table = NoTable

NoSettingsInput == [preferences |-> << >>, list_path_to_git |-> << >>]
NoFiles == [preferences |-> None, repo_list |-> None]

\* find_git_repos is not running.
NoSearchInput ==
    [start_dir |-> << >>, disk |-> [dirs |-> {}, heads |-> {}],
     exclude_dirs |-> {}, listing |-> "ascending", stop_event |-> FALSE]
NoSearch ==
    [pc |-> "off", stack |-> << >>, list_path_to_git |-> << >>,
     result |-> None, is_set |-> FALSE, examined |-> << >>,
     halted |-> FALSE]

\* ---------------------------------------------------------------- Init
\* read_repo_parallel is called: nothing has run yet.
StartRun ==
    /\ refs = [p \in 1..Len(paths_to_git) |-> 0]
    /\ is_set = FALSE
    /\ taskqueue = Chunks(1, Len(paths_to_git),
                          ChunkSize(Len(paths_to_git), pool_size))
    /\ results = [i \in 1..Len(paths_to_git) |-> None]
    /\ ready = {}
    /\ order = << >>
    /\ returned = None
    /\ pc = [k \in Workers |-> IF k <= pool_size THEN "boot" ELSE "absent"]
    /\ stop_event_global = [k \in Workers |-> FALSE]
    /\ reader = [k \in Workers |-> NoReader]
    /\ fetch = [k \in Workers |-> NoFetch]
    /\ ptable = [k \in Workers |-> NoProc]
    /\ log = [i \in 1..Len(paths_to_git) |-> NoLog]
    /\ search_in = NoSearchInput
    /\ search = NoSearch
    /\ dialogs = <<[cancelled |-> FALSE]>>
    /\ settings_in = NoSettingsInput
    /\ files = NoFiles
    /\ loaded = None
    /\ NoView

\* A scan of clones that hold every commit of their origins.
Start ==
    /\ upstream = [p \in 1..Len(paths_to_git) |-> 0]
    /\ StartRun

\* Either one path, read by a pool of one worker (with its remotes, or
\* without a remote and for its local metadata), or up to MaxPaths paths
\* over up to MaxPool workers, at most one of them unreadable or with a
\* remote to fetch.
Init ==
    /\ paths_to_git \in {[j \in 1..n |-> j] : n \in 0..MaxPaths}
    /\ fetch_remotes \in BOOLEAN
    /\ pool_size \in 1..MaxPool
    /\ stop_event \in BOOLEAN
    /\ \/ /\ Len(paths_to_git) = 1
          /\ pool_size = 1
          /\ repos \in [{1} -> ReadConfigs]
       \/ /\ Len(paths_to_git) = 1
          /\ pool_size = 1
          /\ ~stop_event
          /\ repos \in [{1} -> MetaConfigs]
       \/ /\ repos \in [1..Len(paths_to_git) -> ScanConfigs]
          /\ Cardinality({p \in DOMAIN repos :
                             \/ repos[p].remote_count > 0
                             \/ repos[p].fault # "none"}) <= 1
    /\ Start

\* A scan of many paths by two workers that nobody cancels: the first path
\* has a remote, whose fetch starts a helper; the other paths have none.
ChunkInit ==
    /\ pool_size = 2
    /\ paths_to_git = [j \in 1..(4 * pool_size + 1) |-> j]
    /\ fetch_remotes = TRUE
    /\ stop_event = FALSE
    /\ repos = [p \in 1..Len(paths_to_git) |->
                  RepoConfig("none", FALSE, PlainBranches(1),
                             IF p = 1 THEN 1 ELSE 0,
                             IF p = 1 THEN 1 ELSE 0,
                             "main", CleanTree)]
    /\ Start

\* No scan was requested: the state of the scanner while another component
\* runs.
NoScan ==
    /\ paths_to_git = << >>
    /\ repos = << >>
    /\ fetch_remotes = FALSE
    /\ pool_size = 1
    /\ stop_event = FALSE
    /\ upstream = << >>
    /\ refs = << >>
    /\ is_set = FALSE
    /\ taskqueue = << >>
    /\ results = << >>
    /\ ready = {}
    /\ order = << >>
    /\ returned = None
    /\ pc = [k \in Workers |-> "absent"]
    /\ stop_event_global = [k \in Workers |-> FALSE]
    /\ reader = [k \in Workers |-> NoReader]
    /\ fetch = [k \in Workers |-> NoFetch]
    /\ ptable = [k \in Workers |-> NoProc]
    /\ log = << >>
    /\ dialogs = << >>

\* ------------------------------------------------- read_repo_parallel
\* Pool(initializer=_init_pool_stop_event, initargs=(stop_event,)):
\* every worker process runs the initializer before it takes a task.
_init_pool_stop_event(k) ==
    /\ pc[k] = "boot"
    \* the workers are identical processes: they are numbered in the order
    \* in which their initializers run
    /\ \A j \in 1..(k - 1) : pc[j] # "boot"
    /\ stop_event_global' = [stop_event_global EXCEPT ![k] = stop_event]
    /\ pc' = [pc EXCEPT ![k] = "idle"]
    /\ UNCHANGED <<inputs, is_set, taskqueue, results, ready, order,
                   returned, reader, fetch, ptable, log>>

\* A free worker takes the next chunk of p.map and calls read_repo on its
\* first path.
TakeTask(k) ==
    /\ pc[k] = "idle"
    /\ taskqueue # << >>
    \* free workers are indistinguishable: the one that wins the queue is
    \* taken to be the lowest-numbered of them
    /\ \A j \in 1..(k - 1) : pc[j] # "idle"
    /\ reader' = [reader EXCEPT ![k] = [NoReader EXCEPT
                                          !.chunk = Head(taskqueue)]]
    /\ taskqueue' = Tail(taskqueue)
    /\ pc' = [pc EXCEPT ![k] = "read_start"]
    /\ log' = [log EXCEPT ![Head(Head(taskqueue))].stop_at_start =
                                                    stop_event /\ is_set]
    /\ UNCHANGED <<inputs, is_set, results, ready, order, returned,
                   stop_event_global, fetch, ptable>>

\* read_repo returns val for the worker's task; the pool stores it in the
\* slot of that task and the worker goes on with the rest of its chunk.
\* lg is the history of the call up to the return.
Return(k, val, repo_state, lg) ==
    LET i == Task(k)
        rest == Tail(reader[k].chunk)
    IN  /\ results' = [results EXCEPT ![i] = val]
        /\ ready' = ready \cup {i}
        /\ order' = Append(order, i)
        /\ log' = [j \in DOMAIN log |->
                     IF j = i THEN [lg EXCEPT !.value = val,
                                              !.repo = repo_state]
                     ELSE IF rest # << >> /\ j = Head(rest)
                     THEN [log[j] EXCEPT !.stop_at_start =
                                              stop_event /\ is_set]
                     ELSE log[j]]
        /\ reader' = [reader EXCEPT ![k] = [NoReader EXCEPT !.chunk = rest]]
        /\ pc' = [pc EXCEPT ![k] = IF rest = << >> THEN "idle"
                                   ELSE "read_start"]

CollectByCompletion(res, ord) == [i \in 1..Len(ord) |-> res[ord[i]]]

\* The list p.map hands back: slot i holds the result of task i.
Collect(res, ord) == [i \in 1..Len(ord) |-> res[i]]

\* p.map returns when every task is done; the with-block ends the pool.
MapReturn ==
    /\ returned = None
    /\ ready = 1..N
    /\ \A k \in Workers : pc[k] \in {"idle", "absent", "boot"}
    /\ returned' = Some(Collect(results, order))
    /\ UNCHANGED <<inputs, is_set, taskqueue, results, ready, order, pc,
                   stop_event_global, reader, fetch, ptable, log>>

\* The caller sets the event it passed in (CancellableDialog._cancel:
\* self.cancelled = True, self.stop_event.set()).
SetStop ==
    /\ stop_event
    /\ ~is_set
    /\ returned = None
    /\ is_set' = TRUE
    /\ dialogs' = [dialogs EXCEPT ![Len(dialogs)].cancelled = TRUE]
    /\ UNCHANGED <<repos, paths_to_git, fetch_remotes, pool_size, stop_event,
                   upstream, refs,
                   search_in, search, settings, view, taskqueue, results,
                   ready,
                   order, returned, pc, stop_event_global, reader, fetch,
                   ptable, log>>

EventShared(previous) == previous

\* multiprocessing.Event() (ReadWorker.__init__): a new event, not set,
\* whatever the state of the event of the request before.
Event(previous) == FALSE

\* TableModel.refresh_all_data after a scan has completed: a new ReadWorker
\* with a new event and a new CancellableDialog; its run() calls
\* read_repo_parallel on the same repository list, which creates a new pool
\* whose processes start with _stop_event_global = None.
refresh_all_data ==
    /\ returned # None
    /\ Len(dialogs) < MaxRequests
    /\ dialogs' = Append(dialogs, [cancelled |-> FALSE])
    /\ is_set' = Event(is_set)
    /\ taskqueue' = Chunks(1, N, ChunkSize(N, pool_size))
    /\ results' = [i \in 1..N |-> None]
    /\ ready' = {}
    /\ order' = << >>
    /\ returned' = None
    /\ pc' = [k \in Workers |-> IF k <= pool_size THEN "boot" ELSE "absent"]
    /\ stop_event_global' = [k \in Workers |-> FALSE]
    /\ reader' = [k \in Workers |-> NoReader]
    /\ fetch' = [k \in Workers |-> NoFetch]
    /\ ptable' = [k \in Workers |-> NoProc]
    /\ log' = [i \in 1..N |-> NoLog]
    /\ UNCHANGED <<repos, paths_to_git, fetch_remotes, pool_size, stop_event,
                   upstream, refs, search_in, search, settings, view>>

WarningTimeoutFirst(fr, remote_count, fetch_status) ==
    IF ~fr /\ remote_count > 0 THEN Some(UNFETCHED_REMOTE_WARNING)
    ELSE IF fetch_status = None THEN None
    ELSE IF "TIMEOUT" \in fetch_status[1] THEN Some(FETCH_TIMEOUT_WARNING)
    ELSE IF "ERROR" \in fetch_status[1] THEN Some(FETCH_FAILED_WARNING)
    ELSE None

\* lines 271..279: the warning of the record
Warning(fr, remote_count, fetch_status) ==
    IF ~fr /\ remote_count > 0 THEN Some(UNFETCHED_REMOTE_WARNING)
    ELSE IF fetch_status = None THEN None
    ELSE IF "ERROR" \in fetch_status[1] THEN Some(FETCH_FAILED_WARNING)
    ELSE IF "TIMEOUT" \in fetch_status[1] THEN Some(FETCH_TIMEOUT_WARNING)
    ELSE None

\* lines 179 and 223: repo.head.is_detached
IsDetached(cfg) == cfg.head \notin BranchNames

\* lines 186..193: repo.is_dirty(index, working_tree), which GitPython
\* answers with False for every bare repository
IsDirty(cfg, index, working_tree) ==
    IF cfg.bare THEN FALSE
    ELSE \/ index /\ cfg.tree.index_dirty
         \/ working_tree /\ cfg.tree.tree_dirty

BranchNameAttachedFirst(cfg) ==
    IF cfg.branch_count = 0 THEN NO_BRANCH_DISPLAY_NAME
    ELSE IF IsDetached(cfg) THEN DETACHED_BRANCH_DISPLAY_NAME
    ELSE cfg.head

\* lines 215..224: repo.active_branch raises TypeError on a detached HEAD
BranchName(cfg) ==
    LET name == IF cfg.branch_count = 0 THEN NO_BRANCH_DISPLAY_NAME
                ELSE IF IsDetached(cfg) THEN NO_BRANCH_DISPLAY_NAME
                ELSE cfg.head
    IN  IF IsDetached(cfg) THEN DETACHED_BRANCH_DISPLAY_NAME ELSE name

\* line 179: info['detached_head'] = repo.head.is_detached
DetachedHead(cfg) == IsDetached(cfg)

\* lines 175..230: the record after the local metadata was read
OpenRepo(path, cfg) ==
    [path |-> path,
     bare |-> cfg.bare,
     detached_head |-> DetachedHead(cfg),
     branch_count |-> cfg.branch_count,
     remote_count |-> cfg.remote_count,
     helpers |-> cfg.helpers,
     late_fault |-> cfg.fault = "late",
     index_changes |-> IsDirty(cfg, TRUE, FALSE),
     working_tree_changes |-> IsDirty(cfg, FALSE, TRUE),
     untracked_count |-> IF ~cfg.bare THEN cfg.tree.untracked ELSE 0,
     stash |-> IF ~cfg.bare THEN cfg.tree.stashed ELSE FALSE,
     branch_name |-> BranchName(cfg),
     behind_count |-> 0,
     ahead_count |-> 0,
     fetch_status |-> None]

FetchWantedAlsoBare(info) == info.branch_count > 0 /\ fetch_remotes

\* line 231 and 232: the fetch loop is entered
FetchWanted(info) == ~info.bare /\ info.branch_count > 0 /\ fetch_remotes

WithRefsStale(branches, held) == branches

\* The branches as lines 260..267 find them when the tracking refs hold
\* `held` commits of the origin more than when the read began.
WithRefs(branches, held) ==
    [j \in 1..Len(branches) |->
        IF branches[j].tracking = "ok"
        THEN [branches[j] EXCEPT !.behind = @ + held]
        ELSE branches[j]]

RECURSIVE AheadBehindSwapped(_, _, _)
AheadBehindSwapped(branches, ahead, behind) ==
    IF branches = << >> THEN [ahead |-> ahead, behind |-> behind]
    ELSE LET b == Head(branches) IN
         IF b.tracking = "ok"
         THEN AheadBehindSwapped(Tail(branches), ahead + b.behind,
                                 behind + b.ahead)
         ELSE AheadBehindSwapped(Tail(branches), ahead, behind)

\* lines 260..267: the loop over repo.branches that adds to ahead_count and
\* behind_count, started from the counts the record holds
RECURSIVE AheadBehind(_, _, _)
AheadBehind(branches, ahead, behind) ==
    IF branches = << >> THEN [ahead |-> ahead, behind |-> behind]
    ELSE LET b == Head(branches) IN
         IF b.tracking = "ok"
         THEN AheadBehind(Tail(branches), ahead + b.ahead,
                          behind + b.behind)
         ELSE AheadBehind(Tail(branches), ahead, behind)

BranchesReturnsPartial(k, info, lg) ==
    LET counted == ~info.bare /\ info.branch_count > 0
        ab == IF counted
              THEN AheadBehind(WithRefs(repos[info.path].branches,
                                        refs[info.path]),
                               info.ahead_count, info.behind_count)
              ELSE [ahead |-> info.ahead_count, behind |-> info.behind_count]
    IN
    IF info.late_fault /\ counted
    THEN Return(k, Some(info), "open", lg)
    ELSE Return(k,
                Some([info EXCEPT !.ahead_count = ab.ahead,
                                  !.behind_count = ab.behind]
                     @@ [up_to_date |-> ab.behind = 0 /\ ab.ahead = 0,
                         warning |-> Warning(fetch_remotes,
                                             info.remote_count,
                                             info.fetch_status)]),
                "closed", lg)

\* lines 231 and 260..285: ahead/behind counts, up_to_date, warning,
\* repo.close(), return info; a query that raises is caught by lines
\* 281..284
Branches(k, info, lg) ==
    LET counted == ~info.bare /\ info.branch_count > 0
        ab == IF counted
              THEN AheadBehind(WithRefs(repos[info.path].branches,
                                        refs[info.path]),
                               info.ahead_count, info.behind_count)
              ELSE [ahead |-> info.ahead_count, behind |-> info.behind_count]
    IN
    IF info.late_fault /\ counted
    THEN Return(k, None, "open", lg)
    ELSE Return(k,
                Some([info EXCEPT !.ahead_count = ab.ahead,
                                  !.behind_count = ab.behind]
                     @@ [up_to_date |-> ab.behind = 0 /\ ab.ahead = 0,
                         warning |-> Warning(fetch_remotes,
                                             info.remote_count,
                                             info.fetch_status)]),
                "closed", lg)

\* lines 171..231: the entry check of the stop event, Repo(path) and the
\* local metadata; without a fetch loop the call goes on to lines 260..285
ReadStart(k) ==
    /\ pc[k] = "read_start"
    /\ LET cfg == repos[paths_to_git[Task(k)]]
           info == OpenRepo(paths_to_git[Task(k)], cfg)
           lg == [log[Task(k)] EXCEPT !.opened = TRUE]
       IN
       IF EntryStop(k)
       THEN /\ Return(k, None, "none", log[Task(k)])
            /\ UNCHANGED <<inputs, is_set, taskqueue, returned,
                           stop_event_global, fetch, ptable>>
       ELSE IF cfg.fault = "open"
       THEN /\ Return(k, None, "none", lg)
            /\ UNCHANGED <<inputs, is_set, taskqueue, returned,
                           stop_event_global, fetch, ptable>>
       ELSE IF FetchWanted(info)
       THEN /\ reader' = [reader EXCEPT ![k] =
                            [@ EXCEPT !.repo = "open",
                                      !.remote = 1,
                                      !.info = Some(info)]]
            /\ log' = [log EXCEPT ![Task(k)] = lg]
            /\ pc' = [pc EXCEPT ![k] = "remotes"]
            /\ UNCHANGED <<inputs, is_set, taskqueue, results, ready, order,
                           returned, stop_event_global, fetch, ptable>>
       ELSE /\ Branches(k, info, lg)
            /\ UNCHANGED <<inputs, is_set, taskqueue, returned,
                           stop_event_global, fetch, ptable>>

\* lines 233..244: one turn of `for remote in repo.remotes`; after the last
\* remote the call goes on to lines 260..285
RemoteLoop(k) ==
    /\ pc[k] = "remotes"
    /\ LET info == reader[k].info[1] IN
       IF reader[k].remote > info.remote_count
       THEN /\ Branches(k, info, log[Task(k)])
            /\ UNCHANGED <<inputs, is_set, taskqueue, returned,
                           stop_event_global, fetch, ptable>>
       ELSE IF RemoteStop(k)
       THEN /\ Return(k, None, "open", log[Task(k)])
            /\ UNCHANGED <<inputs, is_set, taskqueue, returned,
                           stop_event_global, fetch, ptable>>
       ELSE \* git_fetch_with_timeout, lines 75..90: Popen and the locals
            /\ ptable' = [ptable EXCEPT ![k] =
                            [NoProc EXCEPT !.proc = "running"]]
            /\ fetch' = [fetch EXCEPT ![k] = NoFetch]
            /\ log' = [log EXCEPT ![Task(k)].launches = @ + 1]
            /\ pc' = [pc EXCEPT ![k] = "poll"]
            /\ UNCHANGED <<inputs, is_set, taskqueue, results, ready, order,
                           returned, stop_event_global, reader>>

\* ----------------------------------------------- git_fetch_with_timeout
FetchPcs == {"poll", "poll_body", "kill_enum", "kill", "wait"}

NaturalStatusAlwaysOK(returncode) == "OK"

\* lines 132..138: the outcome of a subprocess that exited on its own
NaturalStatus(returncode) == IF returncode # 0 THEN "ERROR" ELSE "OK"

KilledStatusAlwaysTimeout(stop) == "TIMEOUT"

\* lines 128..131: the outcome after the kill
KilledStatus(stop) == IF stop THEN "CANCEL" ELSE "TIMEOUT"

ThreeOrMoreAgain(three_processes, processes) == Len(processes) >= 3

\* line 95: the doubling condition
ThreeOrMore(three_processes, processes) ==
    ~three_processes /\ Len(processes) >= 3

\* lines 101..102: any(x.status() in [STATUS_IDLE, STATUS_RUNNING])
AnyActive(st) == \E p \in DOMAIN st : st[p] \in {"idle", "running"}

\* a descendant that was enumerated and is gone: psutil raises
\* NoSuchProcess from status() and from kill()
Gone(k, p) == p # TheProcess /\ p \notin ptable[k].children

ExpiredIdleOnly(sinceA, tA, sinceB, tB) == sinceB > tB

\* lines 105..112: the idle timeout or the overall timeout has run out
Expired(sinceA, tA, sinceB, tB) == sinceB > tB \/ sinceA > tA

\* lines 91..93 (and 132..138 when the loop condition fails)
PollEnumerate(k) ==
    /\ pc[k] = "poll"
    /\ IF ptable[k].proc = "exited"
       THEN /\ ptable' = [ptable EXCEPT ![k].proc = "reaped"]
            /\ fetch' = [fetch EXCEPT ![k].status =
                           Some(NaturalStatus(ptable[k].returncode[1]))]
            /\ pc' = [pc EXCEPT ![k] = "fetch_return"]
       ELSE /\ fetch' = [fetch EXCEPT ![k].processes = Enumerate(k),
                                      ![k].active = FALSE]
            /\ pc' = [pc EXCEPT ![k] = "poll_body"]
            /\ UNCHANGED ptable
    /\ UNCHANGED <<inputs, is_set, taskqueue, results, ready, order,
                   returned, stop_event_global, reader, log>>

\* lines 94..117: the body of one poll iteration
PollBody(k) ==
    /\ pc[k] = "poll_body"
    /\ LET f == fetch[k]
           procs == Range(f.processes)
       IN
       IF \E p \in procs : Gone(k, p)
       THEN /\ pc' = [pc EXCEPT ![k] = "fetch_raised"]
            /\ UNCHANGED fetch
       ELSE \E st \in [procs -> Statuses], d \in 1..MaxSleep :
            /\ st[TheProcess] = "zombie" <=> ptable[k].proc = "exited"
            /\ \A p \in procs \ {TheProcess} : st[p] # "zombie"
            /\ LET dbl == ThreeOrMore(f.three_processes, f.processes)
                   tA == IF dbl THEN f.timeout_A_s * 2 ELSE f.timeout_A_s
                   tB == IF dbl THEN f.timeout_B_s * 2 ELSE f.timeout_B_s
                   sB == IF AnyActive(st) THEN 0 ELSE f.sinceB
                   f1 == [f EXCEPT !.processes = << >>,
                                   !.three_processes = @ \/ dbl,
                                   !.timeout_A_s = tA,
                                   !.timeout_B_s = tB,
                                   !.sinceB = sB,
                                   !.set_at_break = StopSeen(k),
                                   !.active =
                                      \E p \in procs :
                                         st[p] \in {"idle", "running"},
                                   !.expired = Expired(f.sinceA, tA, sB, tB)]
               IN
               IF Expired(f.sinceA, tA, sB, tB)
               THEN /\ fetch' = [fetch EXCEPT ![k] =
                                   [f1 EXCEPT !.timeout = TRUE]]
                    /\ pc' = [pc EXCEPT ![k] = "kill_enum"]
               ELSE IF PollStop(k)
               THEN /\ fetch' = [fetch EXCEPT ![k] =
                                   [f1 EXCEPT !.stop = TRUE]]
                    /\ pc' = [pc EXCEPT ![k] = "kill_enum"]
               ELSE /\ fetch' = [fetch EXCEPT ![k] =
                                   [f1 EXCEPT !.sinceA = f.sinceA + d,
                                              !.sinceB = sB + d]]
                    /\ pc' = [pc EXCEPT ![k] = "poll"]
    /\ UNCHANGED <<inputs, is_set, taskqueue, results, ready, order,
                   returned, stop_event_global, reader, ptable, log>>

\* lines 120..122: enumerate the tree again before the kill
KillEnumerate(k) ==
    /\ pc[k] = "kill_enum"
    /\ fetch' = [fetch EXCEPT ![k].processes = Enumerate(k)]
    /\ pc' = [pc EXCEPT ![k] = "kill"]
    /\ UNCHANGED <<inputs, is_set, taskqueue, results, ready, order,
                   returned, stop_event_global, reader, ptable, log>>

\* lines 123..124: p.kill() for the next enumerated process
KillOne(k) ==
    /\ pc[k] = "kill"
    /\ LET p == Head(fetch[k].processes)
           rest == Tail(fetch[k].processes)
       IN
       IF Gone(k, p)
       THEN /\ pc' = [pc EXCEPT ![k] = "fetch_raised"]
            /\ UNCHANGED <<fetch, ptable>>
       ELSE /\ ptable' = [ptable EXCEPT ![k] =
                  IF p = TheProcess
                  THEN [@ EXCEPT !.proc = IF @ = "running" THEN "killed"
                                          ELSE @]
                  ELSE [@ EXCEPT !.children = @ \ {p}]]
            /\ fetch' = [fetch EXCEPT ![k].processes = rest]
            /\ pc' = [pc EXCEPT ![k] = IF rest = << >> THEN "wait"
                                       ELSE "kill"]
    /\ UNCHANGED <<inputs, is_set, taskqueue, results, ready, order,
                   returned, stop_event_global, reader, log>>

\* lines 127..131: proc.wait(timeout_A_s) reaps the subprocess and the
\* outcome is returned
Wait(k) ==
    /\ pc[k] = "wait"
    /\ ptable' = [ptable EXCEPT ![k] =
                    [@ EXCEPT !.proc = "reaped",
                              !.returncode = IF @ = None THEN Some(-9)
                                             ELSE @]]
    /\ fetch' = [fetch EXCEPT ![k].status =
                   Some(KilledStatus(fetch[k].stop))]
    /\ pc' = [pc EXCEPT ![k] = "fetch_return"]
    /\ UNCHANGED <<inputs, is_set, taskqueue, results, ready, order,
                   returned, stop_event_global, reader, log>>

\* line 127: the killed subprocess does not end within timeout_A_s and
\* proc.wait raises subprocess.TimeoutExpired
WaitExpired(k) ==
    /\ pc[k] = "wait"
    /\ ptable[k].proc = "killed"
    /\ pc' = [pc EXCEPT ![k] = "fetch_raised"]
    /\ UNCHANGED <<inputs, is_set, taskqueue, results, ready, order,
                   returned, stop_event_global, reader, fetch, ptable, log>>

AccumulateOverwrite(fetch_status, status) == Some({status})

AccumulateNoCancel(fetch_status, status) ==
    IF status = "CANCEL" /\ fetch_status # None THEN fetch_status
    ELSE IF fetch_status = None THEN Some({status})
    ELSE Some(fetch_status[1] \cup {status})

AccumulateFirst(fetch_status, status) ==
    IF fetch_status = None THEN Some({status}) ELSE fetch_status

\* lines 255..258: fetch_status = status, or fetch_status |= status
Accumulate(fetch_status, status) ==
    IF fetch_status = None THEN Some({status})
    ELSE Some(fetch_status[1] \cup {status})

NextRemoteSkip(remote, status) == remote + 2

NextRemoteRetry(remote, status) ==
    IF status \in {"TIMEOUT", "ERROR"} THEN remote ELSE remote + 1

\* line 232: `for remote in repo.remotes` moves on to the next remote,
\* whatever the fetch of this one returned
NextRemote(remote, status) == remote + 1

\* lines 238..258: git_fetch_with_timeout returned, its outcome is merged
\* into info['fetch_status'] and the loop goes to the next remote
FetchReturn(k) ==
    /\ pc[k] = "fetch_return"
    /\ reader' = [reader EXCEPT ![k] =
                    [@ EXCEPT !.remote = NextRemote(@, fetch[k].status[1]),
                              !.info = Some([@[1] EXCEPT !.fetch_status =
                                 Accumulate(@, fetch[k].status[1])])]]
    /\ log' = [log EXCEPT ![Task(k)].outcomes =
                 Append(@, [status |-> fetch[k].status[1],
                            stopped |-> stop_event /\ is_set])]
    /\ pc' = [pc EXCEPT ![k] = "remotes"]
    /\ fetch' = [fetch EXCEPT ![k] = NoFetch]
    /\ ptable' = [ptable EXCEPT ![k] = NoProc]
    /\ UNCHANGED <<inputs, is_set, taskqueue, results, ready, order,
                   returned, stop_event_global>>

\* lines 281..284: an exception raised inside git_fetch_with_timeout is
\* caught by read_repo, which returns None
Except(k) ==
    /\ pc[k] = "fetch_raised"
    /\ Return(k, None, reader[k].repo,
              [log[Task(k)] EXCEPT !.outcomes =
                 Append(@, [status |-> "RAISED",
                            stopped |-> stop_event /\ is_set])])
    /\ fetch' = [fetch EXCEPT ![k] = NoFetch]
    /\ ptable' = [ptable EXCEPT ![k] = NoProc]
    /\ UNCHANGED <<inputs, is_set, taskqueue, returned, stop_event_global>>

\* ---------------------------------------------- the fetch's process tree
\* a live process of the tree starts another one (ssh, a remote helper)
Spawn(k) ==
    /\ pc[k] \in FetchPcs
    /\ ptable[k].proc = "running" \/ ptable[k].children # {}
    /\ ptable[k].spawned < reader[k].info[1].helpers
    /\ ptable' = [ptable EXCEPT ![k] =
                    [@ EXCEPT !.spawned = @ + 1,
                              !.children = @ \cup {ptable[k].spawned + 1}]]
    /\ UNCHANGED <<inputs, is_set, taskqueue, results, ready, order,
                   returned, pc, stop_event_global, reader, fetch, log>>

\* a descendant ends and is reaped by its parent
ChildExit(k) ==
    /\ pc[k] \in FetchPcs
    /\ \E c \in ptable[k].children :
         ptable' = [ptable EXCEPT ![k].children = @ \ {c}]
    /\ UNCHANGED <<inputs, is_set, taskqueue, results, ready, order,
                   returned, pc, stop_event_global, reader, fetch, log>>

\* What the tracking refs hold when git fetch <remote> ends: a fetch of the
\* origin (the first remote, which the branches track) that ends with exit
\* code 0 has brought them to the tip of the origin.
RefsAfterFetch(held, remote, code, tip) ==
    IF remote = 1 /\ code = 0 THEN tip ELSE held

\* git fetch ends on its own with an exit code
ProcExit(k) ==
    /\ pc[k] \in FetchPcs
    /\ ptable[k].proc = "running"
    /\ \E code \in {0, 1} :
         /\ ptable' = [ptable EXCEPT ![k] =
                         [@ EXCEPT !.proc = "exited",
                                   !.returncode = Some(code)]]
         /\ refs' = [refs EXCEPT ![reader[k].info[1].path] =
                       RefsAfterFetch(@, reader[k].remote, code,
                                      upstream[reader[k].info[1].path])]
    /\ UNCHANGED <<repos, paths_to_git, fetch_remotes, pool_size, stop_event,
                   upstream, search_in, search, dialogs, settings, view,
                   is_set, taskqueue, results, ready, order,
                   returned, pc, stop_event_global, reader, fetch, log>>

\* ------------------------------------------------------- specification
Next ==
    \/ \E k \in Workers : _init_pool_stop_event(k)
    \/ \E k \in Workers : TakeTask(k)
    \/ MapReturn
    \/ SetStop
    \/ \E k \in Workers : ReadStart(k)
    \/ \E k \in Workers : RemoteLoop(k)
    \/ \E k \in Workers : PollEnumerate(k)
    \/ \E k \in Workers : PollBody(k)
    \/ \E k \in Workers : KillEnumerate(k)
    \/ \E k \in Workers : KillOne(k)
    \/ \E k \in Workers : Wait(k)
    \/ \E k \in Workers : WaitExpired(k)
    \/ \E k \in Workers : FetchReturn(k)
    \/ \E k \in Workers : Except(k)
    \/ \E k \in Workers : Spawn(k)
    \/ \E k \in Workers : ChildExit(k)
    \/ \E k \in Workers : ProcExit(k)

Spec == Init /\ [][Next]_vars

\* The steps of a scan that has no stop event.
ChunkNext ==
    \/ \E k \in Workers : _init_pool_stop_event(k)
    \/ \E k \in Workers : TakeTask(k)
    \/ MapReturn
    \/ \E k \in Workers : ReadStart(k)
    \/ \E k \in Workers : RemoteLoop(k)
    \/ \E k \in Workers : PollEnumerate(k)
    \/ \E k \in Workers : PollBody(k)
    \/ \E k \in Workers : KillEnumerate(k)
    \/ \E k \in Workers : KillOne(k)
    \/ \E k \in Workers : Wait(k)
    \/ \E k \in Workers : WaitExpired(k)
    \/ \E k \in Workers : FetchReturn(k)
    \/ \E k \in Workers : Except(k)
    \/ \E k \in Workers : Spawn(k)
    \/ \E k \in Workers : ChildExit(k)
    \/ \E k \in Workers : ProcExit(k)

ChunkSpec == ChunkInit /\ [][ChunkNext]_vars

\* The steps the program takes itself: the pool's processes and the caller
\* of p.map run whenever they can, and time.sleep and proc.wait return.
\* What the fetch subprocess and its helpers do, and whether the user
\* cancels, is left to them.
Program ==
    \/ \E k \in Workers : _init_pool_stop_event(k)
    \/ \E k \in Workers : TakeTask(k)
    \/ MapReturn
    \/ \E k \in Workers : ReadStart(k)
    \/ \E k \in Workers : RemoteLoop(k)
    \/ \E k \in Workers : PollEnumerate(k)
    \/ \E k \in Workers : PollBody(k)
    \/ \E k \in Workers : KillEnumerate(k)
    \/ \E k \in Workers : KillOne(k)
    \/ \E k \in Workers : Wait(k)
    \/ \E k \in Workers : WaitExpired(k)
    \/ \E k \in Workers : FetchReturn(k)
    \/ \E k \in Workers : Except(k)

\* The scans that fetch: every repository can be opened and has a work
\* tree, and a fetch starts at most one helper.
LiveInit ==
    /\ Init
    /\ fetch_remotes
    /\ \A p \in DOMAIN repos :
          /\ repos[p].fault = "none"
          /\ ~repos[p].bare
          /\ repos[p].branches = PlainBranches(1)
          /\ repos[p].helpers <= 1

LiveSpec == LiveInit /\ [][Next]_vars /\ WF_vars(Program)

\* Scans requested one after the other through the ReadWorker, which always
\* passes its event: one repository with a remote, read by one worker.
RefreshInit ==
    /\ Init
    /\ stop_event
    /\ fetch_remotes
    /\ Len(paths_to_git) = 1
    /\ pool_size = 1
    /\ repos[1].fault = "none"
    /\ ~repos[1].bare
    /\ repos[1].remote_count = 1
    /\ repos[1].branches = PlainBranches(1)

RefreshNext ==
    \/ Next
    \/ refresh_all_data

\* The read of one clone whose origin has up to MaxUpstream commits that
\* the clone has not fetched; its branches track the origin or nothing.
MaxUpstream == 2

UpstreamInit ==
    /\ paths_to_git = <<1>>
    /\ pool_size = 1
    /\ fetch_remotes \in BOOLEAN
    /\ stop_event \in BOOLEAN
    /\ \E br \in {<<Branch("ok", 0, 0)>>,
                   <<Branch("ok", 0, 0), Branch("none", 0, 0)>>,
                   <<Branch("ok", 0, 0), Branch("ok", 0, 0)>>},
          r \in 1..MaxRemotes :
          repos = <<RepoConfig("none", FALSE, br, r, IF r = 1 THEN 1 ELSE 0,
                               "main", CleanTree)>>
    /\ upstream \in [{1} -> 0..MaxUpstream]
    /\ StartRun

UpstreamSpec == UpstreamInit /\ [][Next]_vars

RefreshSpec == RefreshInit /\ [][RefreshNext]_vars

TypeOK ==
    /\ \A k \in Workers : pc[k] \in
          {"absent", "boot", "idle", "read_start", "remotes",
           "fetch_return", "fetch_raised"} \cup FetchPcs
    /\ ready \subseteq 1..N
    /\ \A p \in DOMAIN repos : repos[p] \in RepoConfigs

\* ------------------------------------------------------ find_git_repos
\* A path is the sequence of its names below the file system root.  str()
\* of a path joins the names with "/"; Chars gives the character codes of
\* the names the model uses.
Chars(name) ==
    CASE name = "s" -> <<115>>
      [] name = "t" -> <<116>>
      [] name = "w" -> <<119>>
      [] name = ".git" -> <<46, 103, 105, 116>>
      [] name = "b.git" -> <<98, 46, 103, 105, 116>>
      [] name = "refs" -> <<114, 101, 102, 115>>
      [] name = "objects" -> <<111, 98, 106, 101, 99, 116, 115>>
      [] name = "modules" -> <<109, 111, 100, 117, 108, 101, 115>>
      [] name = "sub" -> <<115, 117, 98>>

Sep == <<47>>

RECURSIVE Str(_)
Str(path) ==
    IF path = << >> THEN << >>
    ELSE IF Len(path) = 1 THEN Chars(path[1])
    ELSE Str(SubSeq(path, 1, Len(path) - 1)) \o Sep \o Chars(path[Len(path)])

\* Python's order of two strings.
RECURSIVE StrLess(_, _)
StrLess(a, b) ==
    IF a = << >> THEN b # << >>
    ELSE IF b = << >> THEN FALSE
    ELSE IF a[1] # b[1] THEN a[1] < b[1]
    ELSE StrLess(Tail(a), Tail(b))

\* pathlib's Path.stem: the last name without its final suffix.
Stem(name) ==
    CASE name = "b.git" -> "b"
      [] OTHER -> name

Last(path) == path[Len(path)]

IsBelowOrAt(path, X) ==
    /\ Len(X) <= Len(path)
    /\ SubSeq(path, 1, Len(X)) = X

\* The disks the search runs on.  Below the start directory: a work tree w
\* whose .git holds a submodule's repository under modules/sub; optionally
\* a bare repository b.git that also has modules/sub, a plain directory
\* modules with a bare repository sub in it, and a start directory that is
\* itself a bare repository.  w/.git may lack its HEAD file or its objects
\* directory.
start == <<"s">>

GitDir(p) == {p, p \o <<"refs">>, p \o <<"objects">>}

Disk(start_repo, worktree, bare, plain) ==
    LET git == start \o <<"w", ".git">>
        b == start \o <<"b.git">>
        m == start \o <<"modules">>
    IN  [dirs |->
            {start, start \o <<"w">>, git, git \o <<"refs">>,
             git \o <<"modules">>}
            \cup (IF worktree = "no objects" THEN {}
                  ELSE {git \o <<"objects">>})
            \cup GitDir(git \o <<"modules", "sub">>)
            \cup (IF start_repo THEN GitDir(start) ELSE {})
            \cup (IF bare
                  THEN GitDir(b) \cup {b \o <<"modules">>}
                       \cup GitDir(b \o <<"modules", "sub">>)
                  ELSE {})
            \cup (IF plain THEN {m} \cup GitDir(m \o <<"sub">>) ELSE {}),
         heads |->
            {git \o <<"modules", "sub">>}
            \cup (IF worktree = "no HEAD" THEN {} ELSE {git})
            \cup (IF start_repo THEN {start} ELSE {})
            \cup (IF bare THEN {b, b \o <<"modules", "sub">>} ELSE {})
            \cup (IF plain THEN {m \o <<"sub">>} ELSE {})]

Disks ==
    {Disk(sr, wt, b, pl) :
        sr \in BOOLEAN, wt \in {"repo", "no HEAD", "no objects"},
        b \in BOOLEAN, pl \in BOOLEAN}

\* The sets of at most k members of S.
RECURSIVE UpTo(_, _)
UpTo(S, k) ==
    IF k = 0 THEN {{}}
    ELSE UpTo(S, k - 1) \cup {A \cup {x} : A \in UpTo(S, k - 1), x \in S}

\* exclude_dirs: directories of the disk, or a directory elsewhere.
Excludes(disk) == UpTo(disk.dirs \cup {<<"t">>}, MaxExclude)

Children(disk, root) ==
    {d \in disk.dirs : Len(d) = Len(root) + 1 /\ IsBelowOrAt(d, root)}

RECURSIVE PathsToSeq(_)
PathsToSeq(S) ==
    IF S = {} THEN << >>
    ELSE LET m == CHOOSE x \in S :
                      \A y \in S \ {x} : StrLess(Str(x), Str(y))
         IN  <<m>> \o PathsToSeq(S \ {m})

Reverse(s) == [j \in 1..Len(s) |-> s[Len(s) + 1 - j]]

\* The order in which os.walk lists the members of a set of directories:
\* the order of the names on disk, here ascending or descending.
Listed(S, listing) ==
    IF listing = "ascending" THEN PathsToSeq(S) ELSE Reverse(PathsToSeq(S))

\* dirs[:] = [x for x in dirs if ...] (lines 24-25)
FilterDirs(disk, root, exclude_dirs) ==
    {d \in Children(disk, root) :
        /\ d \notin exclude_dirs
        /\ ~(Last(d) = "modules" /\ Stem(Last(root)) = ".git")}

\* "HEAD" in files and "refs" in dirs and "objects" in dirs (line 26)
LooksLikeRepo(disk, root, dirs) ==
    /\ root \in disk.heads
    /\ root \o <<"refs">> \in dirs
    /\ root \o <<"objects">> \in dirs

\* list_path_to_git.sort() (line 28)
RECURSIVE Insert(_, _)
Insert(x, s) ==
    IF s = << >> THEN <<x>>
    ELSE IF StrLess(Str(s[1]), Str(x)) THEN <<s[1]>> \o Insert(x, Tail(s))
    ELSE <<x>> \o s

RECURSIVE Sort(_)
Sort(s) == IF s = << >> THEN << >> ELSE Insert(s[1], Sort(Tail(s)))

StopEventIgnored == FALSE

\* (stop_event is not None) and stop_event.is_set() (line 21)
StopRequested == search_in.stop_event /\ search.is_set

\* find_git_repos(start_dir, exclude_dirs, stop_event), as SearchWorker.run
\* calls it, at the first os.walk(start_dir) step.
SearchInit ==
    /\ NoScan
    /\ \E disk \in Disks :
       \E X \in Excludes(disk) :
       \E l \in {"ascending", "descending"} :
       \E e \in BOOLEAN :
          search_in = [start_dir |-> start, disk |-> disk,
                       exclude_dirs |-> X, listing |-> l, stop_event |-> e]
    /\ search = [pc |-> "walk", stack |-> <<start>>,
                 list_path_to_git |-> << >>, result |-> None,
                 is_set |-> FALSE, examined |-> << >>, halted |-> FALSE]
    /\ settings_in = NoSettingsInput
    /\ files = NoFiles
    /\ loaded = None
    /\ NoView

\* One round of the for loop (lines 20-27): os.walk yields the next
\* directory, top down and depth first; a set stop event breaks the loop,
\* after which lines 28-29 sort and return.
Walk ==
    /\ search.pc = "walk"
    /\ search.stack # << >>
    /\ LET root == Head(search.stack)
           dirs == FilterDirs(search_in.disk, root, search_in.exclude_dirs)
       IN  IF StopRequested
           THEN search' = [search EXCEPT
                    !.pc = "done",
                    !.stack = << >>,
                    !.halted = TRUE,
                    !.result = Some(Sort(search.list_path_to_git))]
           ELSE search' = [search EXCEPT
                    !.stack = Listed(dirs, search_in.listing)
                              \o Tail(search.stack),
                    !.list_path_to_git =
                        IF LooksLikeRepo(search_in.disk, root, dirs)
                        THEN Append(@, root) ELSE @,
                    !.examined = Append(@, root)]
    /\ UNCHANGED <<scan, search_in, settings, view>>

\* os.walk is exhausted: sort and return (lines 28-29).
WalkReturn ==
    /\ search.pc = "walk"
    /\ search.stack = << >>
    /\ search' = [search EXCEPT
                    !.pc = "done",
                    !.result = Some(Sort(search.list_path_to_git))]
    /\ UNCHANGED <<scan, search_in, settings, view>>

\* CancellableDialog._cancel sets the event of the SearchWorker.
SearchCancel ==
    /\ search_in.stop_event
    /\ search.pc = "walk"
    /\ ~search.is_set
    /\ search' = [search EXCEPT !.is_set = TRUE]
    /\ UNCHANGED <<scan, search_in, settings, view>>

SearchNext ==
    \/ Walk
    \/ WalkReturn
    \/ SearchCancel

SearchSpec == SearchInit /\ [][SearchNext]_vars

\* ------------------------------------------------------- settings files
\* Text is a sequence of characters: "LF" is the line feed, "SP" the space.
\* A value of the program is tagged with its Python type.
PyStr(chars) == [type |-> "str", v |-> chars]
PyPath(chars) == [type |-> "Path", v |-> chars]
PyBool(b) == [type |-> "bool", v |-> b]

\* str.rstrip() strips the white space at the end of a string.
Whitespace == {"SP", "LF"}

RECURSIVE Rstrip(_)
Rstrip(s) ==
    IF s = << >> THEN s
    ELSE IF s[Len(s)] \in Whitespace THEN Rstrip(SubSeq(s, 1, Len(s) - 1))
    ELSE s

\* `for x in file`: the lines of a text file, each with its line feed.
RECURSIVE Lines(_, _)
Lines(text, line) ==
    IF text = << >> THEN (IF line = << >> THEN << >> ELSE <<line>>)
    ELSE IF Head(text) = "LF"
    THEN <<Append(line, "LF")>> \o Lines(Tail(text), << >>)
    ELSE Lines(Tail(text), Append(line, Head(text)))

\* save_repo_list, lines 110-111: file.write(f"{line}\n") for every entry;
\* the f-string formats a str and a Path alike as their characters.
RECURSIVE RepoListText(_)
RepoListText(list) ==
    IF list = << >> THEN << >>
    ELSE Head(list).v \o <<"LF">> \o RepoListText(Tail(list))

\* load_settings, line 84: [x.rstrip() for x in file]
ReadRepoList(text) ==
    LET lines == Lines(text, << >>)
    IN  [j \in 1..Len(lines) |-> PyStr(Rstrip(lines[j]))]

\* A JSON text is a sequence of tokens.
Tok(t, v) == [t |-> t, v |-> v]
Punct(t) == Tok(t, << >>)

\* json.dump of a value
ToJson(value) ==
    IF value.type = "bool" THEN Punct(IF value.v THEN "true" ELSE "false")
    ELSE Tok("string", value.v)

\* json.load of a value token
FromJson(tok) ==
    IF tok.t = "true" THEN PyBool(TRUE)
    ELSE IF tok.t = "false" THEN PyBool(FALSE)
    ELSE PyStr(tok.v)

\* AppSettings._preferences_keys that the model uses, in the order in
\* which _save_preferences inserts them.
PreferencesKeys == <<"fetch_remotes", "search_path">>

RECURSIVE Items(_, _, _)
Items(keys, d, first) ==
    IF keys = << >> THEN << >>
    ELSE IF Head(keys) \notin DOMAIN d THEN Items(Tail(keys), d, first)
    ELSE (IF first THEN << >> ELSE <<Punct(",")>>)
         \o <<Tok("string", Head(keys)), Punct(":"), ToJson(d[Head(keys)])>>
         \o Items(Tail(keys), d, FALSE)

\* save_preferences, line 99: json.dump(preferences, file)
PreferencesText(d) == <<Punct("{")>> \o Items(PreferencesKeys, d, TRUE)
                      \o <<Punct("}")>>

IsValueTok(tok) == tok.t \in {"string", "true", "false"}

\* The members of a JSON object: key : value , key : value ...
WellFormed(body) ==
    /\ Len(body) % 4 = 3
    /\ \A j \in 1..Len(body) :
          CASE j % 4 = 1 -> body[j].t = "string"
            [] j % 4 = 2 -> body[j].t = ":"
            [] j % 4 = 3 -> IsValueTok(body[j])
            [] OTHER -> body[j].t = ","

\* load_settings, lines 72-80: json.load, None unless the text is a JSON
\* object (JSONDecodeError, or a value that is no dict).
ReadPreferences(text) ==
    IF Len(text) < 2 \/ text[1].t # "{" \/ text[Len(text)].t # "}"
    THEN None
    ELSE LET body == SubSeq(text, 2, Len(text) - 1)
             keys == {body[j].v : j \in {i \in 1..Len(body) : i % 4 = 1}}
         IN  IF body = << >> THEN Some(<< >>)
             ELSE IF ~WellFormed(body) THEN None
             ELSE Some([k \in keys |->
                          FromJson(body[(CHOOSE j \in 1..Len(body) :
                                            j % 4 = 1 /\ body[j].v = k
                                            /\ \A i \in (j + 1)..Len(body) :
                                                  i % 4 = 1 => body[i].v # k)
                                        + 2])])

\* The preferences saved: any of the keys, with a flag or a path.
PreferencesDicts ==
    {<< >>}
    \cup {[k \in {"fetch_remotes"} |-> PyBool(b)] : b \in BOOLEAN}
    \cup {[k \in {"search_path"} |-> PyStr(s)] : s \in {<<"/", "a">>}}
    \cup {[k \in {"fetch_remotes", "search_path"} |->
             IF k = "fetch_remotes" THEN PyBool(b) ELSE PyStr(s)] :
          b \in BOOLEAN, s \in {<<"/", "a">>}}

\* The entries of a repository list: paths as str, among them one with a
\* space inside, one that ends with a space and one with a line feed in a
\* name, and a path as a pathlib.Path (as tests/test_settings.py has it).
RepoListEntries ==
    {PyStr(<<"/", "a">>), PyStr(<<"/", "SP", "a">>),
     PyStr(<<"/", "a", "SP">>), PyStr(<<"/", "a", "LF", "a">>),
     PyPath(<<"/", "a">>)}

RepoLists ==
    UNION {[1..n -> RepoListEntries] : n \in 0..MaxEntries}

\* open(..., encoding="utf-8") decodes what it reads: the token
\* "undecodable" and the character "XFF" stand for bytes that are no UTF-8,
\* on which read() and the iteration raise UnicodeDecodeError.
Decodable(text, bad) ==
    \A j \in 1..Len(text) : text[j] # bad

\* The settings directory before anything is saved: no preferences file,
\* or one that is not JSON, holds no JSON object or is no text at all; no
\* repository list file, one of an earlier run, or one that is no text.
SettingsInit ==
    /\ NoScan
    /\ search_in = NoSearchInput
    /\ search = NoSearch
    /\ settings_in \in [preferences : PreferencesDicts,
                        list_path_to_git : RepoLists]
    /\ files \in [preferences : {None, Some(<<Tok("junk", << >>)>>),
                                 Some(<<Punct("true")>>),
                                 Some(<<Punct("undecodable")>>)},
                  repo_list : {None, Some(<<"/", "a", "LF">>),
                               Some(<<"/", "a", "LF", "XFF", "LF">>)}]
    /\ loaded = None
    /\ NoView

\* save_preferences(settings_dir, preferences)
save_preferences ==
    /\ loaded = None
    /\ files' = [files EXCEPT !.preferences =
                    Some(PreferencesText(settings_in.preferences))]
    /\ UNCHANGED <<scan, search_in, search, settings_in, loaded, view>>

\* save_repo_list(settings_dir, list_path_to_git)
save_repo_list ==
    /\ loaded = None
    /\ files' = [files EXCEPT !.repo_list =
                    Some(RepoListText(settings_in.list_path_to_git))]
    /\ UNCHANGED <<scan, search_in, search, settings_in, loaded, view>>

\* load_settings catches json.JSONDecodeError and FileNotFoundError (lines
\* 77 and 85): the UnicodeDecodeError of a file that is no UTF-8 text
\* leaves the function.
Raised(fs) ==
    IF \/ /\ fs.preferences # None
          /\ ~Decodable(fs.preferences[1], Punct("undecodable"))
       \/ /\ fs.repo_list # None
          /\ ~Decodable(fs.repo_list[1], "XFF")
    THEN Some("UnicodeDecodeError")
    ELSE None

\* load_settings(settings_dir): a missing file gives None
\* (FileNotFoundError); when an exception leaves the function nothing is
\* returned.
load_settings ==
    /\ loaded = None
    /\ loaded' =
          IF Raised(files) # None
          THEN Some([preferences |-> None, list_path_to_git |-> None,
                     raised |-> Raised(files)])
          ELSE Some([preferences |->
                        IF files.preferences = None THEN None
                        ELSE ReadPreferences(files.preferences[1]),
                     list_path_to_git |->
                        IF files.repo_list = None THEN None
                        ELSE Some(ReadRepoList(files.repo_list[1])),
                     raised |-> None])
    /\ UNCHANGED <<scan, search_in, search, settings_in, files, view>>

SettingsNext ==
    \/ save_preferences
    \/ save_repo_list
    \/ load_settings

SettingsSpec == SettingsInit /\ [][SettingsNext]_vars

\* ---------------------------------------------------- extract_repo_name
\* A string is a sequence of characters; a pathlib path is its anchor ("/"
\* or none) and its parts, each one a name.
MaxParts == 3

DotGit == <<".", "g", "i", "t">>

\* The names of the directories of the paths given to extract_repo_name.
Names ==
    {DotGit, <<"b">>, <<"b">> \o DotGit, <<"b", ".", "x">>, <<".", "b">>,
     DotGit \o <<".", "x">>}

RECURSIVE Join(_)
Join(parts) ==
    IF parts = << >> THEN << >>
    ELSE IF Len(parts) = 1 THEN parts[1]
    ELSE parts[1] \o <<"/">> \o Join(Tail(parts))

\* str(path), with or without a separator at its end.
Render(p, trailing) ==
    (IF p.anchor THEN <<"/">> ELSE << >>) \o Join(p.parts)
        \o (IF trailing THEN <<"/">> ELSE << >>)

RECURSIVE Split(_, _, _)
Split(s, cur, acc) ==
    LET closed == IF cur \in {<< >>, <<".">>} THEN acc ELSE Append(acc, cur)
    IN  IF s = << >> THEN closed
        ELSE IF s[1] = "/" THEN Split(Tail(s), << >>, closed)
        ELSE Split(Tail(s), Append(cur, s[1]), acc)

\* Path(path_to_git), line 149: a path object is taken as it is, a string
\* is parsed: a leading separator is the anchor, the parts are what the
\* separators delimit, without the empty ones and the "." ones.
Path(path_to_git) ==
    IF path_to_git.type = "Path" THEN path_to_git.v
    ELSE [anchor |-> path_to_git.v # << >> /\ path_to_git.v[1] = "/",
          parts |-> Split(path_to_git.v, << >>, << >>)]

RECURSIVE rfind(_, _)
rfind(s, c) ==
    IF s = << >> THEN 0
    ELSE IF s[Len(s)] = c THEN Len(s)
    ELSE rfind(SubSeq(s, 1, Len(s) - 1), c)

\* Path.stem: the name (the last part) up to its last dot, when that dot
\* is neither the first nor the last character of the name.
stem(p) ==
    LET name == IF p.parts = << >> THEN << >> ELSE p.parts[Len(p.parts)]
        i == rfind(name, ".")
    IN  IF 1 < i /\ i < Len(name) THEN SubSeq(name, 1, i - 1)
        ELSE name

\* Path.parent: the path without its last part; the parent of an anchor or
\* of the empty path is itself.
parent(p) ==
    IF p.parts = << >> THEN p
    ELSE [p EXCEPT !.parts = SubSeq(p.parts, 1, Len(p.parts) - 1)]

\* Path.parents: one ancestor per part.
RECURSIVE parents(_)
parents(p) ==
    IF p.parts = << >> THEN << >> ELSE <<parent(p)>> \o parents(parent(p))

\* The paths to a repository's data: one to MaxParts names, absolute or
\* relative, given as a path object or as a string.
GitPaths ==
    {[anchor |-> a, parts |-> parts] :
        a \in BOOLEAN, parts \in UNION {[1..n -> Names] : n \in 1..MaxParts}}

NamingInit ==
    /\ NoScan
    /\ search_in = NoSearchInput
    /\ search = NoSearch
    /\ settings_in = NoSettingsInput
    /\ files = NoFiles
    /\ loaded = None
    /\ table = NoTable
    /\ \E p \in GitPaths :
       \E x \in {PyPath(p), PyStr(Render(p, FALSE)), PyStr(Render(p, TRUE))} :
          naming = [pc |-> "call", path_to_git |-> Some(x), raised |-> None,
                    value |-> None]

\* Lines 149..158: what a call of extract_repo_name ends with.  parents[1]
\* raises IndexError for a path of one part.
Extracted(path_to_git) ==
    LET gitpath == Path(path_to_git)
    IN  IF stem(gitpath) = DotGit
        THEN IF Len(parents(gitpath)) < 2
             THEN [raised |-> Some("IndexError"), value |-> None]
             ELSE [raised |-> None,
                   value |-> Some([repo_name |-> stem(parent(gitpath)),
                                   repo_dir |-> parent(gitpath),
                                   containing_dir |-> parents(gitpath)[2]])]
        ELSE [raised |-> None,
              value |-> Some([repo_name |-> stem(gitpath),
                              repo_dir |-> gitpath,
                              containing_dir |-> parent(gitpath)])]

\* extract_repo_name(path_to_git)
extract_repo_name ==
    /\ naming.pc = "call"
    /\ naming' = [naming EXCEPT
                     !.pc = "done",
                     !.raised = Extracted(naming.path_to_git[1]).raised,
                     !.value = Extracted(naming.path_to_git[1]).value]
    /\ UNCHANGED <<scan, search_in, search, settings, table>>

NamingSpec == NamingInit /\ [][extract_repo_name]_vars

\* ------------------------------------------- TableModel and MainWindow
MaxRows == 2

\* The paths of the repository list: the .git of a work tree, a bare
\* repository, and the .git of the directory a search was started in with
\* a relative path.
ListedPaths ==
    {PyStr(Render([anchor |-> TRUE, parts |-> <<<<"b">>, DotGit>>], FALSE)),
     PyStr(Render([anchor |-> TRUE, parts |-> <<<<"b">> \o DotGit>>], FALSE)),
     PyStr(Render([anchor |-> FALSE, parts |-> <<DotGit>>], FALSE))}

RepoListsOfTable == UNION {[1..n -> ListedPaths] : n \in 0..MaxRows}

\* The record read_repo returns for a repository it could read, as far as
\* the table shows it: lines 176..177 of read.py.
Info(path_to_git) ==
    [bad_repo_flag |-> FALSE,
     name |-> Extracted(path_to_git).value[1].repo_name,
     containing_dir |-> Extracted(path_to_git).value[1].containing_dir]

\* dict(self.bad_data_entry) with the name and the containing directory
\* filled in.
BadDataEntry(path_to_git) ==
    [bad_repo_flag |-> TRUE,
     name |-> Extracted(path_to_git).value[1].repo_name,
     containing_dir |-> Extracted(path_to_git).value[1].containing_dir]

\* What read_repo_parallel can return for a list: per path None (the
\* repository could not be read, the stop event was set, or an exception
\* was caught, as the IndexError of extract_repo_name is) or its record.
Results(repo_list) ==
    {r \in [1..Len(repo_list) -> {None} \cup {Some(Info(x)) :
                 x \in {y \in ListedPaths : Extracted(y).raised = None}}] :
        \A i \in 1..Len(repo_list) :
            r[i] # None => /\ Extracted(repo_list[i]).raised = None
                           /\ r[i] = Some(Info(repo_list[i]))}

CancelledIgnored(dialog) == FALSE

\* self.cd.cancelled
Cancelled(dialog) == dialog.cancelled

\* lines 241..250 of model.py: the rows built from the results, or the
\* exception that leaves the loop.
RECURSIVE Rows(_, _, _)
Rows(results_, repo_list, i) ==
    IF i > Len(results_) THEN [raised |-> None, repo_data |-> << >>]
    ELSE IF results_[i] = None /\ Extracted(repo_list[i]).raised # None
    THEN [raised |-> Extracted(repo_list[i]).raised, repo_data |-> << >>]
    ELSE LET rest == Rows(results_, repo_list, i + 1)
             row == IF results_[i] = None THEN BadDataEntry(repo_list[i])
                    ELSE results_[i][1]
         IN  [raised |-> rest.raised,
              repo_data |-> IF rest.raised # None THEN << >>
                            ELSE <<row>> \o rest.repo_data]

TableInit ==
    /\ NoScan
    /\ search_in = NoSearchInput
    /\ search = NoSearch
    /\ settings_in = NoSettingsInput
    /\ files = NoFiles
    /\ loaded = None
    /\ naming = NoNaming
    /\ \E l \in RepoListsOfTable :
          table = [pc |-> "idle", repo_list |-> l, repo_data |-> << >>,
                   cd |-> None, window_cd |-> None, emitted |-> None,
                   before |-> None, last |-> None]

Snapshot == Some([repo_data |-> table.repo_data, repo_list |-> table.repo_list])

\* TableModel.refresh_all_data, triggered by actionRefresh_all: a new
\* dialog and a ReadWorker on the repository list.
actionRefresh_all ==
    /\ table.pc = "idle"
    /\ table' = [table EXCEPT !.pc = "refresh",
                              !.cd = Some([cancelled |-> FALSE]),
                              !.before = Snapshot]
    /\ UNCHANGED <<scan, search_in, search, settings, naming>>

\* ReadWorker.run: finished.emit(results)
ReadWorker_run ==
    /\ table.pc = "refresh"
    /\ \E r \in Results(table.repo_list) :
          table' = [table EXCEPT !.pc = "refresh_emitted",
                                 !.emitted = Some(r)]
    /\ UNCHANGED <<scan, search_in, search, settings, naming>>

\* CancellableDialog._cancel: the Cancel button of the dialog on show.
_cancel ==
    /\ \/ /\ table.pc \in {"refresh", "refresh_emitted"}
          /\ ~table.cd[1].cancelled
          /\ table' = [table EXCEPT !.cd = Some([cancelled |-> TRUE])]
       \/ /\ table.pc \in {"search", "search_emitted"}
          /\ ~table.window_cd[1].cancelled
          /\ table' = [table EXCEPT !.window_cd = Some([cancelled |-> TRUE])]
    /\ UNCHANGED <<scan, search_in, search, settings, naming>>

\* TableModel._refresh_complete(results)
_refresh_complete ==
    /\ table.pc = "refresh_emitted"
    /\ LET results_ == table.emitted[1]
           built == Rows(results_, table.repo_list, 1)
           done(raised) == Some([op |-> "refresh",
                                 cancelled |-> table.cd[1].cancelled,
                                 results |-> results_,
                                 before |-> table.before[1],
                                 raised |-> raised])
       IN  IF Cancelled(table.cd[1])
           THEN table' = [table EXCEPT !.pc = "idle", !.emitted = None,
                                       !.last = done(None)]
           ELSE IF built.raised # None
           THEN table' = [table EXCEPT !.pc = "idle", !.emitted = None,
                                       !.last = done(built.raised)]
           ELSE table' = [table EXCEPT !.pc = "idle", !.emitted = None,
                                       !.repo_data = built.repo_data,
                                       !.last = done(None)]
    /\ UNCHANGED <<scan, search_in, search, settings, naming>>

\* MainWindow.launch_search: a new dialog and a SearchWorker.
launch_search ==
    /\ table.pc = "idle"
    /\ table' = [table EXCEPT !.pc = "search",
                              !.window_cd = Some([cancelled |-> FALSE]),
                              !.before = Snapshot]
    /\ UNCHANGED <<scan, search_in, search, settings, naming>>

\* SearchWorker.run: finished.emit(list_path_to_git)
SearchWorker_run ==
    /\ table.pc = "search"
    /\ \E l \in RepoListsOfTable :
          table' = [table EXCEPT !.pc = "search_emitted",
                                 !.emitted = Some(l)]
    /\ UNCHANGED <<scan, search_in, search, settings, naming>>

\* MainWindow._search_complete(repo_list): the rows are emptied, the list
\* is stored and refresh_all_data starts the refresh of the new list.
_search_complete ==
    /\ table.pc = "search_emitted"
    /\ LET done == Some([op |-> "search",
                         cancelled |-> table.window_cd[1].cancelled,
                         results |-> table.emitted[1],
                         before |-> table.before[1],
                         raised |-> None])
       IN  IF Cancelled(table.window_cd[1])
           THEN table' = [table EXCEPT !.pc = "idle", !.emitted = None,
                                       !.last = done]
           ELSE table' = [table EXCEPT
                             !.pc = "refresh",
                             !.emitted = None,
                             !.repo_data = << >>,
                             !.repo_list = table.emitted[1],
                             !.cd = Some([cancelled |-> FALSE]),
                             !.before = Some([repo_data |-> << >>,
                                              repo_list |-> table.emitted[1]]),
                             !.last = done]
    /\ UNCHANGED <<scan, search_in, search, settings, naming>>

\* TableModel.refresh_row(index): read_repo on the path of the row.
refresh_row ==
    /\ table.pc = "idle"
    /\ \E row \in 1..Len(table.repo_data) :
       \E r \in Results(<<table.repo_list[row]>>) :
          LET done(raised) == Some([op |-> "row", cancelled |-> FALSE,
                                    results |-> r,
                                    before |-> Snapshot[1],
                                    raised |-> raised])
              x == table.repo_list[row]
          IN  IF r[1] # None
              THEN table' = [table EXCEPT !.repo_data[row] = r[1][1],
                                          !.last = done(None)]
              ELSE IF Extracted(x).raised # None
              THEN table' = [table EXCEPT !.last = done(Extracted(x).raised)]
              ELSE table' = [table EXCEPT !.repo_data[row] = BadDataEntry(x),
                                          !.last = done(None)]
    /\ UNCHANGED <<scan, search_in, search, settings, naming>>

TableNext ==
    \/ actionRefresh_all
    \/ ReadWorker_run
    \/ _cancel
    \/ _refresh_complete
    \/ launch_search
    \/ SearchWorker_run
    \/ _search_complete
    \/ refresh_row

TableSpec == TableInit /\ [][TableNext]_vars

\* ================================================================ claims
Outcomes(i) == log[i].outcomes
RemoteCount(i) == repos[paths_to_git[i]].remote_count
Returning(k) == pc[k] = "fetch_return"
Ending(k) == pc[k] \in {"fetch_return", "fetch_raised"}

\* C1: read_repo_parallel returns a list of exactly N entries, entry i being
\* the value read_repo returned for paths[i] (a record of that path or
\* None), whatever the completion order and whether or not the stop signal
\* was set.
C1_OrderPreserved ==
    returned # None =>
        /\ Len(returned[1]) = N
        /\ \A i \in 1..N :
             /\ returned[1][i] = log[i].value
             /\ returned[1][i] # None =>
                    returned[1][i][1].path = paths_to_git[i]

C1_Witness ==
    /\ returned # None
    /\ N >= 2
    /\ order[1] # 1
    /\ is_set
    /\ \E i \in 1..N : returned[1][i] # None

\* C2: a read_repo call that starts in a pool worker after the stop signal
\* was set returns None, opens no repository and launches no fetch.
C2_StartAfterStop ==
    \A i \in 1..N :
        log[i].stop_at_start =>
            /\ ~log[i].opened
            /\ log[i].launches = 0
            /\ i \in ready => results[i] = None

C2_Witness == \E i \in ready : log[i].stop_at_start

\* C3 as claimed: a finished read one of whose fetches was ended by
\* cancellation has returned None, whichever remote was being fetched.
C3_Original ==
    \A i \in ready :
        (\E j \in 1..Len(Outcomes(i)) : Outcomes(i)[j].status = "CANCEL")
            => results[i] = None

\* C3 amended: when the stop signal is set by the time the fetch of a remote
\* other than the last one ends, the read returns None; once the fetch of
\* the last remote has returned an outcome the read returns a record unless
\* a later query raises, also when that fetch was ended by cancellation.
C3_StopBeforeLastRemote ==
    \A i \in ready :
        LET o == Outcomes(i)
            rc == RemoteCount(i)
        IN
        /\ \A j \in 1..Len(o) :
             o[j].stopped /\ j < rc => results[i] = None
        /\ (/\ rc > 0 /\ Len(o) = rc
            /\ o[rc].status # "RAISED"
            /\ repos[paths_to_git[i]].fault = "none")
              => results[i] # None

C3_Witness ==
    \E i \in ready :
        /\ RemoteCount(i) >= 2
        /\ Len(Outcomes(i)) = 1
        /\ Outcomes(i)[1].status = "CANCEL"
        /\ results[i] = None

\* C4: a fetch that ends in TIMEOUT or ERROR does not make read_repo return
\* None and does not stop the loop over the remotes: the loop goes on to the
\* next remote, a returned record has had every remote fetched and its
\* fetch_status holds the TIMEOUT or ERROR flag.
C4_Record ==
    \A i \in ready :
        LET o == Outcomes(i) IN
        /\ results[i] # None =>
             /\ Len(o) > 0 => Len(o) = RemoteCount(i)
             /\ \A j \in 1..Len(o) :
                  o[j].status \in {"TIMEOUT", "ERROR"} =>
                     /\ results[i][1].fetch_status # None
                     /\ o[j].status \in results[i][1].fetch_status[1]
        /\ (/\ results[i] = None
            /\ Len(o) > 0
            /\ o[Len(o)].status \in {"TIMEOUT", "ERROR"})
              => is_set \/ repos[paths_to_git[i]].fault = "late"

C4_Step ==
    \A k \in Workers :
        (/\ Returning(k)
         /\ fetch[k].status[1] \in {"TIMEOUT", "ERROR"}
         /\ pc'[k] # pc[k])
          => /\ pc'[k] = "remotes"
             /\ reader'[k].chunk = reader[k].chunk
             /\ reader'[k].remote = reader[k].remote + 1
             /\ fetch[k].status[1] \in reader'[k].info[1].fetch_status[1]

C4_FailedFetchKeepsReading == [](C4_Record) /\ [][C4_Step]_vars

C4_Witness ==
    \E i \in ready :
        /\ results[i] # None
        /\ Len(Outcomes(i)) = 2
        /\ Outcomes(i)[1].status = "TIMEOUT"
        /\ Outcomes(i)[2].status = "OK"
        /\ results[i][1].fetch_status = Some({"TIMEOUT", "OK"})

\* C5 as claimed: a fetch that ends in CANCEL is recorded as the CANCEL flag
\* of a returned record and never makes the read return None (stated for
\* repositories none of whose queries raises).
C5_Original ==
    \A i \in ready :
        (/\ repos[paths_to_git[i]].fault = "none"
         /\ \E j \in 1..Len(Outcomes(i)) : Outcomes(i)[j].status = "CANCEL")
          => /\ results[i] # None
             /\ "CANCEL" \in results[i][1].fetch_status[1]

\* C5 amended: a fetch that ends in CANCEL is recorded as the CANCEL flag of
\* a returned record exactly when it is the fetch of the last remote; a
\* cancelled fetch of an earlier remote makes the read return None.
C5_CancelRecordedForLastRemote ==
    \A i \in ready :
        LET o == Outcomes(i)
            rc == RemoteCount(i)
            lastCancelled == rc > 0 /\ Len(o) = rc /\ o[rc].status = "CANCEL"
        IN
        /\ results[i] # None =>
             (lastCancelled <=>
                 /\ results[i][1].fetch_status # None
                 /\ "CANCEL" \in results[i][1].fetch_status[1])
        /\ lastCancelled /\ repos[paths_to_git[i]].fault = "none"
             => results[i] # None
        /\ \A j \in 1..Len(o) :
             o[j].status = "CANCEL" /\ j < rc => results[i] = None

C5_Witness ==
    \E i \in ready :
        /\ RemoteCount(i) = 2
        /\ results[i] # None
        /\ results[i][1].fetch_status = Some({"OK", "CANCEL"})

C7_HangReturnsTimeout ==
    \A k \in Workers :
        (/\ Ending(k)
         /\ ptable[k].returncode \notin {Some(0), Some(1)}
         /\ ~is_set)
          => /\ Returning(k)
             /\ fetch[k].status = Some("TIMEOUT")

\* C8 as claimed: when the stop signal is set at the poll iteration that
\* leaves the loop, the call returns CANCEL, also when a timeout has expired
\* at that iteration.
C8_Original ==
    \A k \in Workers :
        Returning(k) /\ fetch[k].set_at_break
            => fetch[k].status = Some("CANCEL")

\* C8 amended: a poll iteration that finds the stop signal set leaves the
\* loop; the exit counts as a cancellation, and CANCEL is what the call
\* returns, only if neither timeout has expired at that iteration; if one
\* has, the exit counts as a timeout and TIMEOUT is what the call returns.
C8_AfterLoop ==
    \A k \in Workers :
        /\ pc[k] \in {"kill_enum", "kill", "wait"} \/ Ending(k) =>
             /\ fetch[k].set_at_break /\ ~fetch[k].expired
                  => fetch[k].stop /\ ~fetch[k].timeout
             /\ fetch[k].expired => fetch[k].timeout /\ ~fetch[k].stop
        /\ Returning(k) =>
             /\ fetch[k].stop => fetch[k].status = Some("CANCEL")
             /\ fetch[k].timeout => fetch[k].status = Some("TIMEOUT")

C8_Step ==
    \A k \in Workers :
        pc[k] = "poll_body" /\ StopSeen(k) /\ pc'[k] # pc[k]
            => pc'[k] \in {"kill_enum", "fetch_raised"}

C8_CancelUnlessExpired == [](C8_AfterLoop) /\ [][C8_Step]_vars

C8_Witness ==
    \E k \in Workers :
        /\ Returning(k)
        /\ fetch[k].set_at_break
        /\ ~fetch[k].expired
        /\ fetch[k].status = Some("CANCEL")

\* C9: whenever git_fetch_with_timeout returns TIMEOUT or CANCEL, no process
\* of the fetch's tree is alive and the subprocess has been reaped.
C9_TreeKilled ==
    \A k \in Workers :
        Returning(k) /\ fetch[k].status[1] \in {"TIMEOUT", "CANCEL"}
            => /\ ptable[k].children = {}
               /\ ptable[k].proc = "reaped"

\* C10: no call of git_fetch_with_timeout ends by raising.
C10_NeverRaises == \A k \in Workers : pc[k] # "fetch_raised"

\* C11: at each poll iteration the idle countdown is restarted if and only
\* if a process of the fetch tree is seen running or idle at that
\* iteration; an iteration at which the subprocess is alive and the time
\* since the last restart exceeds the idle timeout aborts the fetch with
\* TIMEOUT, whatever the overall timeout, and TIMEOUT is how the call ends.
C11_Iteration ==
    \A k \in Workers :
        pc[k] = "poll_body" /\ pc'[k] # pc[k] =>
            LET f == fetch[k]
                g == fetch'[k]
                slept == IF pc'[k] = "poll" THEN g.sinceA - f.sinceA ELSE 0
                idle == IF pc'[k] = "fetch_raised" THEN f.sinceB
                        ELSE g.sinceB - slept
            IN  /\ pc'[k] # "fetch_raised" =>
                     /\ g.active => idle = 0
                     /\ ~g.active => idle = f.sinceB
                /\ idle > g.timeout_B_s =>
                     /\ pc'[k] = "kill_enum"
                     /\ g.timeout /\ ~g.stop

C11_Aborted ==
    \A k \in Workers :
        Ending(k) /\ fetch[k].timeout =>
            Returning(k) /\ fetch[k].status = Some("TIMEOUT")

C11_IdleTimeout == [](C11_Aborted) /\ [][C11_Iteration]_vars

\* C12: within one git_fetch_with_timeout call each threshold is its initial
\* value or exactly twice it, both are doubled together, at the first poll
\* iteration that finds three or more processes in the tree and only
\* there, and once doubled they stay doubled when the tree shrinks.
InCall(k) == pc[k] \in FetchPcs \/ Ending(k)
Doubled(f) == f.timeout_A_s = 2 * TimeoutA

C12_Thresholds ==
    \A k \in Workers :
        InCall(k) =>
            LET f == fetch[k] IN
            /\ f.timeout_A_s \in {TimeoutA, 2 * TimeoutA}
            /\ f.timeout_B_s \in {TimeoutB, 2 * TimeoutB}
            /\ Doubled(f) <=> f.timeout_B_s = 2 * TimeoutB
            /\ Doubled(f) <=> f.three_processes

C12_Doubling ==
    \A k \in Workers :
        InCall(k) /\ InCall(k)' =>
            /\ Doubled(fetch[k]) => Doubled(fetch'[k])
            /\ pc[k] = "poll_body" /\ pc'[k] \notin {pc[k], "fetch_raised"} =>
                 (Doubled(fetch'[k]) <=>
                     Doubled(fetch[k]) \/ Len(fetch[k].processes) >= 3)
            /\ pc[k] # "poll_body" =>
                 (Doubled(fetch'[k]) <=> Doubled(fetch[k]))

C12_DoubledOnce == [](C12_Thresholds) /\ [][C12_Doubling]_vars

C12_Witness ==
    \E k \in Workers :
        /\ pc[k] = "poll_body"
        /\ Len(fetch[k].processes) < 3
        /\ fetch[k].three_processes
        /\ fetch[k].timeout_A_s = 2 * TimeoutA
        /\ fetch[k].timeout_B_s = 2 * TimeoutB

\* C13: the fetch_status of a record returned for a non-bare repository with
\* a local branch, read with fetch enabled, is the union of the outcomes of
\* the fetches of all its remotes: every remote was fetched, and a flag is
\* present iff the fetch of some remote ended with that outcome.
Config(i) == repos[paths_to_git[i]]

C13_FetchStatusIsUnion ==
    \A i \in ready :
        (/\ results[i] # None
         /\ ~Config(i).bare
         /\ Config(i).branch_count > 0
         /\ fetch_remotes)
          => /\ Len(Outcomes(i)) = RemoteCount(i)
             /\ \A flag \in FetchStatus :
                  (/\ results[i][1].fetch_status # None
                   /\ flag \in results[i][1].fetch_status[1])
                    <=> \E j \in 1..Len(Outcomes(i)) :
                           Outcomes(i)[j].status = flag

C13_Witness ==
    \E i \in ready :
        /\ results[i] # None
        /\ Len(Outcomes(i)) = 2
        /\ Outcomes(i)[1].status = "ERROR"
        /\ Outcomes(i)[2].status = "TIMEOUT"
        /\ results[i][1].fetch_status = Some({"ERROR", "TIMEOUT"})

\* C14: in a returned record fetch_status is None exactly when no fetch was
\* attempted for the repository (fetch disabled, no remotes, bare, or no
\* local branch); otherwise it is a non-empty set of flags.
Attempted(i) ==
    /\ fetch_remotes
    /\ RemoteCount(i) > 0
    /\ ~Config(i).bare
    /\ Config(i).branch_count > 0

C14_NoneIffNoFetch ==
    \A i \in ready :
        results[i] # None =>
            LET fs == results[i][1].fetch_status IN
            /\ fs = None <=> ~Attempted(i)
            /\ fs = None <=> log[i].launches = 0
            /\ fs # None => fs[1] # {} /\ fs[1] \subseteq FetchStatus

C14_Witness ==
    \E i \in ready :
        /\ results[i] # None
        /\ fetch_remotes
        /\ RemoteCount(i) > 0
        /\ Config(i).bare
        /\ Config(i).branch_count > 0
        /\ results[i][1].fetch_status = None

\* C15: the warning of a returned record is "Remotes not fetched" when the
\* repository has remotes and fetching is disabled; otherwise "Fetch failed"
\* when a fetch ended in ERROR (also when another ended in TIMEOUT);
\* otherwise "Fetch timed-out" when a fetch ended in TIMEOUT; otherwise None.
Ended(i, flag) ==
    \E j \in 1..Len(Outcomes(i)) : Outcomes(i)[j].status = flag

C15_WarningPriority ==
    \A i \in ready :
        results[i] # None =>
            results[i][1].warning =
                IF ~fetch_remotes /\ RemoteCount(i) > 0
                THEN Some("Remotes not fetched")
                ELSE IF Ended(i, "ERROR") THEN Some("Fetch failed")
                ELSE IF Ended(i, "TIMEOUT") THEN Some("Fetch timed-out")
                ELSE None

C15_Witness ==
    \E i \in ready :
        /\ results[i] # None
        /\ Len(Outcomes(i)) = 2
        /\ Outcomes(i)[1].status = "TIMEOUT"
        /\ Outcomes(i)[2].status = "ERROR"
        /\ results[i][1].warning = Some("Fetch failed")

\* C16: for a non-bare repository ahead_count is the sum, over the local
\* branches whose tracking branch is among the refs, of the commits the
\* branch has and its tracking branch has not, and behind_count the sum of
\* the converse; a branch without a resolving tracking branch adds nothing,
\* and both counts are zero for a bare repository or one without branches.
Tracked(cfg) ==
    {j \in 1..Len(cfg.branches) : cfg.branches[j].tracking = "ok"}

RECURSIVE SumOver(_, _)
SumOver(S, f) ==
    IF S = {} THEN 0
    ELSE LET j == CHOOSE x \in S : TRUE
         IN  f[j] + SumOver(S \ {j}, f)

C16_AheadBehind ==
    \A i \in ready :
        results[i] # None =>
            LET cfg == Config(i)
                r == results[i][1]
                lead == [j \in 1..Len(cfg.branches) |-> cfg.branches[j].ahead]
                trail == [j \in 1..Len(cfg.branches) |->
                            cfg.branches[j].behind]
            IN  /\ ~cfg.bare =>
                     /\ r.ahead_count = SumOver(Tracked(cfg), lead)
                     /\ r.behind_count = SumOver(Tracked(cfg), trail)
                /\ cfg.bare \/ cfg.branch_count = 0 =>
                     r.ahead_count = 0 /\ r.behind_count = 0

C16_Witness ==
    \E i \in ready :
        /\ results[i] # None
        /\ ~Config(i).bare
        /\ Config(i).branches = <<Branch("ok", 1, 0), Branch("ok", 1, 1)>>
        /\ results[i][1].ahead_count = 2
        /\ results[i][1].behind_count = 1

\* C17: the record returned for a bare repository has untracked_count = 0,
\* stash = false, working_tree_changes = false, index_changes = false and
\* detached_head = false, whatever the repository holds.
C17_BareInvariants ==
    \A i \in ready :
        results[i] # None /\ Config(i).bare =>
            LET r == results[i][1] IN
            /\ r.untracked_count = 0
            /\ r.stash = FALSE
            /\ r.working_tree_changes = FALSE
            /\ r.index_changes = FALSE
            /\ r.detached_head = FALSE

RecordFields ==
    {"path", "bare", "detached_head", "branch_count", "remote_count",
     "helpers", "late_fault", "index_changes", "working_tree_changes",
     "untracked_count", "stash", "branch_name", "behind_count",
     "ahead_count", "fetch_status", "up_to_date", "warning"}

Failed(i) ==
    \/ Config(i).fault = "open"
    \/ Ended(i, "RAISED")
    \/ /\ Config(i).fault = "late"
       /\ ~Config(i).bare
       /\ Config(i).branch_count > 0

C19_NoneOrComplete ==
    /\ \A i \in ready :
         /\ Failed(i) => results[i] = None
         /\ results[i] # None =>
              LET r == results[i][1] IN
              /\ DOMAIN r = RecordFields
              /\ r.up_to_date \in BOOLEAN
              /\ r.warning \in {None, Some("Remotes not fetched"),
                                 Some("Fetch failed"),
                                 Some("Fetch timed-out")}
         /\ ~Failed(i) /\ ~is_set => results[i] # None
    /\ (\A k \in Workers : pc[k] \notin {"read_start", "remotes"} \cup FetchPcs
                                \cup {"fetch_return", "fetch_raised"})
          /\ taskqueue = << >>
            => ready = 1..N
    /\ returned # None =>
         /\ Len(returned[1]) = N
         /\ \A i \in 1..N : returned[1][i] = results[i]

C19_Witness ==
    /\ returned # None
    /\ N = 2
    /\ \E i, j \in 1..N :
         /\ Config(i).fault = "open"
         /\ returned[1][i] = None
         /\ returned[1][j] # None
         /\ DOMAIN returned[1][j][1] = RecordFields

\* C20: whenever read_repo returns after Repo(path) succeeded (normal
\* completion, cancellation between two remotes, a caught exception), the
\* repository handle has been closed.
C20_ClosedOnReturn ==
    \A i \in ready :
        log[i].opened /\ Config(i).fault # "open" => log[i].repo = "closed"

\* ------------------------------------------------ find_git_repos claims
\* A repository on disk: a directory holding a file HEAD and the
\* directories refs and objects.
IsRepo(disk, p) ==
    /\ p \in disk.heads
    /\ p \o <<"refs">> \in disk.dirs
    /\ p \o <<"objects">> \in disk.dirs

Excluded(p) == \E X \in search_in.exclude_dirs : IsBelowOrAt(p, X)

\* Git's bookkeeping of submodules: what lies in or below the modules
\* directory of a repository's metadata directory or of a directory named
\* .git.
Bookkeeping(disk, p) ==
    \E j \in 2..Len(p) :
        /\ p[j] = "modules"
        /\ \/ IsRepo(disk, SubSeq(p, 1, j - 1))
           \/ Stem(p[j - 1]) = ".git"

Found == Range(search.result[1])

\* C21: for every X of exclude_dirs, no returned repository is X or lies
\* below X, the start directory included, and a walk that was not stopped
\* returns every repository that is neither excluded nor below an excluded
\* directory (nor part of a submodule's bookkeeping).
C21_Exclusion ==
    search.result # None =>
        /\ \A p \in Found : ~Excluded(p)
        /\ ~search.halted =>
              \A p \in search_in.disk.dirs :
                  (/\ IsRepo(search_in.disk, p)
                   /\ ~Excluded(p)
                   /\ ~Bookkeeping(search_in.disk, p)) => p \in Found

StrictlySorted(s) ==
    \A j \in 1..(Len(s) - 1) : StrLess(Str(s[j]), Str(s[j + 1]))

\* C22: when the stop signal is never set, the result is sorted by the
\* paths' strings without duplicates, every returned directory holds HEAD,
\* refs and objects, and no such directory that is not excluded (nor part
\* of a submodule's bookkeeping) is missing, one whose refs or objects
\* directory is listed in exclude_dirs included.
C22_ExactSorted ==
    (search.result # None /\ ~search.is_set) =>
        /\ StrictlySorted(search.result[1])
        /\ \A p \in Found : IsRepo(search_in.disk, p)
        /\ \A p \in search_in.disk.dirs :
              (/\ IsRepo(search_in.disk, p)
               /\ ~Excluded(p)
               /\ ~Bookkeeping(search_in.disk, p)) => p \in Found

\* The result of the walk that no stop event ends.
RECURSIVE FullWalk(_, _)
FullWalk(stack, found) ==
    IF stack = << >> THEN found
    ELSE LET root == Head(stack)
             dirs == FilterDirs(search_in.disk, root,
                                search_in.exclude_dirs)
         IN  FullWalk(Listed(dirs, search_in.listing) \o Tail(stack),
                      IF LooksLikeRepo(search_in.disk, root, dirs)
                      THEN found \cup {root} ELSE found)

\* C23: the loop round that finds the stop event set examines no directory
\* and returns, sorted, exactly the repositories found before it; a result
\* is always sorted, holds what was found, and is a subset of the result
\* of the walk without the signal.
C23_PartialResult ==
    /\ [](search.result # None =>
            /\ StrictlySorted(search.result[1])
            /\ Found = Range(search.list_path_to_git)
            /\ Found \subseteq FullWalk(<<search_in.start_dir>>, {}))
    /\ [][(/\ search.pc = "walk"
           /\ search.stack # << >>
           /\ search_in.stop_event
           /\ search.is_set
           /\ search' # search) =>
              /\ search'.examined = search.examined
              /\ search'.pc = "done"
              /\ search'.result = Some(Sort(search.list_path_to_git))]_vars

C23_Witness ==
    /\ search.result # None
    /\ search.halted
    /\ Len(search.result[1]) >= 2
    /\ Found # FullWalk(<<search_in.start_dir>>, {})
    /\ search_in.listing = "descending"

Parent(p) == SubSeq(p, 1, Len(p) - 1)

\* C24: the walk never enters a directory named modules whose parent is a
\* repository's metadata directory (the .git of a work tree or the root of
\* a bare repository), and a walk that was not stopped enters every other
\* directory named modules that is not excluded and whose parent it
\* entered.
C24_Modules ==
    /\ \A d \in Range(search.examined) :
          (Len(d) > 1 /\ Last(d) = "modules") =>
              ~IsRepo(search_in.disk, Parent(d))
    /\ (search.result # None /\ ~search.halted) =>
          \A d \in search_in.disk.dirs :
              (/\ Len(d) > 1
               /\ Last(d) = "modules"
               /\ Parent(d) \in Range(search.examined)
               /\ d \notin search_in.exclude_dirs
               /\ ~IsRepo(search_in.disk, Parent(d)))
                  => d \in Range(search.examined)

\* ------------------------------------------------------- scan requests
Request == Len(dialogs)

\* C25: within a scan the stop signal is never cleared once set; a new scan
\* request starts with a new signal that is not set and a new pool whose
\* processes hold no signal yet; a worker only ever sees a signal that the
\* dialog of its own request has set, so no read returns None at its entry
\* check because an earlier request was cancelled; and every worker past
\* its initializer holds the signal the request passed.
C25_FreshSignal ==
    /\ [][(is_set /\ Request' = Request) => is_set']_vars
    /\ [][Request' # Request =>
            /\ ~is_set'
            /\ \A k \in Workers :
                  /\ pc'[k] \in {"boot", "absent"}
                  /\ ~stop_event_global'[k]]_vars
    /\ [](\A k \in Workers :
            /\ StopSeen(k) => dialogs[Request].cancelled
            /\ pc[k] \notin {"boot", "absent"} =>
                  stop_event_global[k] = stop_event)
    /\ [](\A i \in ready :
            (results[i] = None /\ ~log[i].opened) =>
                dialogs[Request].cancelled)

\* A request was cancelled, and the next one has returned a record.
C25_Witness ==
    /\ Request = 2
    /\ dialogs[1].cancelled
    /\ ~dialogs[2].cancelled
    /\ returned # None
    /\ returned[1][1] # None

Reading(k) == pc[k] \notin {"absent", "boot", "idle"}

\* C26: within one scan every path is read at most once (no task index
\* completes twice, and none is read again after it completed or by two
\* workers at once), and the fetch of a remote is launched at most once:
\* the launches of a read never outnumber the remotes it has reached, so a
\* fetch that ended with TIMEOUT or ERROR is not launched again.
C26_NoRetry ==
    /\ \A a, b \in 1..Len(order) : a # b => order[a] # order[b]
    /\ \A k \in Workers :
          Reading(k) =>
              /\ Task(k) \notin Range(order)
              /\ \A j \in Workers \ {k} : Reading(j) => Task(j) # Task(k)
              /\ pc[k] = "remotes" =>
                    log[Task(k)].launches = reader[k].remote - 1
              /\ pc[k] \in FetchPcs \cup {"fetch_return", "fetch_raised"} =>
                    log[Task(k)].launches = reader[k].remote
    /\ \A i \in 1..N :
          /\ log[i].launches <= RemoteCount(i)
          /\ Len(Outcomes(i)) <= log[i].launches

\* A read whose first fetch timed out went on to its second remote and
\* returned.
C26_Witness ==
    /\ returned # None
    /\ \E i \in 1..N :
          /\ RemoteCount(i) = 2
          /\ log[i].launches = 2
          /\ Outcomes(i)[1].status = "TIMEOUT"
          /\ results[i] # None

\* C27: a worker blocked in the poll loop of a fetch delays only its own
\* repository: while it polls, no other path is left waiting in its chunk
\* when another worker is idle with nothing else to take.
C27_OnlyOwnRepository ==
    \A k, j \in Workers :
        (/\ pc[k] \in FetchPcs
         /\ pc[j] = "idle"
         /\ taskqueue = << >>) => Len(reader[k].chunk) = 1

\* C28: every scan terminates.  A poll loop is never found running later
\* than its overall timeout, doubled at most once, plus one sleep; a read
\* launches at most one fetch per remote; and read_repo_parallel eventually
\* returns, whatever the fetch subprocesses do and whether or not the stop
\* signal is set.
C28_Terminates ==
    /\ [](\A k \in Workers :
            pc[k] \in {"poll", "poll_body"} =>
                /\ fetch[k].timeout_A_s \in {TimeoutA, 2 * TimeoutA}
                /\ fetch[k].sinceA <= fetch[k].timeout_A_s + MaxSleep)
    /\ [](\A i \in 1..N : log[i].launches <= RemoteCount(i))
    /\ <>(returned # None /\ Len(returned[1]) = N)

\* A scan nobody cancelled returned although the fetch of every remote hung
\* until its timeout.
C28_Witness ==
    /\ returned # None
    /\ ~is_set
    /\ \E i \in 1..N :
          /\ RemoteCount(i) = 2
          /\ Len(Outcomes(i)) = 2
          /\ \A j \in 1..2 : Outcomes(i)[j].status = "TIMEOUT"

\* C29: once the stop signal is set, the next poll iteration of a worker
\* leaves its poll loop (to kill the subprocess, or by the exception of a
\* vanished helper) and no worker sleeps in a poll loop again, so no
\* timeout is waited out; no fetch is launched after the signal, so a
\* worker runs at most the fetch it had launched before; and no repository
\* is opened after it.
C29_Step ==
    is_set =>
        /\ \A k \in Workers :
              /\ (pc[k] = "poll_body" /\ pc'[k] # pc[k]) =>
                    pc'[k] \in {"kill_enum", "fetch_raised"}
              /\ fetch'[k].sinceA <= fetch[k].sinceA
              /\ fetch'[k].sinceB <= fetch[k].sinceB
        /\ \A i \in 1..N :
              /\ log'[i].launches = log[i].launches
              /\ log'[i].opened = log[i].opened

C29_PromptCancel == [][C29_Step]_vars

\* The signal found a worker in the poll loop of the first of two remotes;
\* the read ended with that one fetch, cancelled before any timeout.
C29_Witness ==
    \E i \in ready :
        /\ RemoteCount(i) = 2
        /\ log[i].launches = 1
        /\ Len(Outcomes(i)) = 1
        /\ Outcomes(i)[1].status = "CANCEL"
        /\ results[i] = None

\* ------------------------------------------------------ settings claims
\* C30: what load_settings returns after save_preferences is a dict equal
\* to the preferences saved, and what it returns after save_repo_list is a
\* list equal to the list saved, element for element and in order.
C30_RoundTrip ==
    (loaded # None /\ loaded[1].raised = None) =>
        /\ files.preferences = Some(PreferencesText(settings_in.preferences))
              => loaded[1].preferences = Some(settings_in.preferences)
        /\ files.repo_list = Some(RepoListText(settings_in.list_path_to_git))
              => loaded[1].list_path_to_git =
                     Some(settings_in.list_path_to_git)

\* C31: load_settings never raises for a missing or badly formatted file:
\* the preferences are None when their file is missing, is no JSON text or
\* holds no JSON object, and the list is None when its file is missing,
\* whatever the other file holds.
C31_NeverRaises ==
    loaded # None =>
        /\ loaded[1].raised = None
        /\ (\/ files.preferences = None
            \/ files.preferences \in {Some(<<Tok("junk", << >>)>>),
                                      Some(<<Punct("true")>>),
                                      Some(<<Punct("undecodable")>>)})
              => loaded[1].preferences = None
        /\ files.repo_list = None => loaded[1].list_path_to_git = None

\* The path a call of extract_repo_name was given: the path object, or the
\* path the string spells.
Given ==
    LET x == naming.path_to_git[1]
    IN  IF x.type = "Path" THEN x.v
        ELSE CHOOSE p \in GitPaths : x.v \in {Render(p, FALSE), Render(p, TRUE)}

WithoutExtension(segment) ==
    LET i == rfind(segment, ".")
    IN  IF 1 < i /\ i < Len(segment) THEN SubSeq(segment, 1, i - 1)
        ELSE segment

\* C32: extract_repo_name returns (name, repo_dir, containing_dir); when the
\* last segment of the path is .git these are the parent segment without
\* its extension, the parent and the grandparent, otherwise the last
\* segment without its extension, the path and its parent; a string and a
\* path object give the same result.
C32_NameAndDirs ==
    naming.pc = "done" =>
        LET p == Given
            n == Len(p.parts)
            up(k) == [p EXCEPT !.parts = SubSeq(p.parts, 1, n - k)]
        IN  /\ naming.raised = None
            /\ naming.value # None
            /\ IF p.parts[n] = DotGit
               THEN /\ n >= 2 => naming.value[1].repo_name =
                                    WithoutExtension(p.parts[n - 1])
                    /\ naming.value[1].repo_dir = up(1)
                    /\ n >= 2 => naming.value[1].containing_dir = up(2)
               ELSE /\ naming.value[1].repo_name = WithoutExtension(p.parts[n])
                    /\ naming.value[1].repo_dir = p
                    /\ naming.value[1].containing_dir = up(1)

Last_ == table.last[1]

\* C33: after a refresh that was not cancelled the table has one row per
\* result slot, in order: the record of a non-null slot, and for a null slot
\* a row flagged as bad that carries the name and the containing directory
\* of the path at that position of the repository list.
C33_RowPerSlot ==
    (table.last # None /\ Last_.op = "refresh" /\ ~Last_.cancelled) =>
        /\ Len(table.repo_data) = Len(Last_.results)
        /\ \A i \in 1..Len(Last_.results) :
              IF Last_.results[i] # None
              THEN table.repo_data[i] = Last_.results[i][1]
              ELSE /\ table.repo_data[i].bad_repo_flag
                   /\ Extracted(table.repo_list[i]).raised = None =>
                        /\ table.repo_data[i].name =
                             Extracted(table.repo_list[i]).value[1].repo_name
                        /\ table.repo_data[i].containing_dir =
                             Extracted(table.repo_list[i]).value[1]
                                 .containing_dir

C34_OneFetchAtATime ==
    \A k \in Workers :
        /\ pc[k] \in FetchPcs \cup {"fetch_return", "fetch_raised"} =>
              /\ log[Task(k)].launches = reader[k].remote
              /\ Len(log[Task(k)].outcomes) = reader[k].remote - 1
        /\ pc[k] = "fetch_return" => ptable[k].proc = "reaped"
        /\ pc[k] = "remotes" =>
              /\ ptable[k].proc = "none"
              /\ log[Task(k)].launches = reader[k].remote - 1
              /\ Len(log[Task(k)].outcomes) = reader[k].remote - 1

C34_Witness ==
    \E k \in Workers :
        /\ pc[k] = "poll_body"
        /\ reader[k].remote = 2
        /\ ptable[k].proc = "running"
        /\ log[Task(k)].outcomes[1].status = "TIMEOUT"

\* C35: with fetch enabled the ahead/behind counts of a record are taken
\* when the fetch of every remote has returned, against the tracking refs
\* as the fetches left them: a clone whose origin has N commits more
\* reports, after a fetch of the origin that ended OK, N commits behind for
\* each branch that tracks it.
C35_CountsAfterFetch ==
    \A i \in ready :
        (/\ results[i] # None
         /\ fetch_remotes
         /\ ~Config(i).bare
         /\ Config(i).branch_count > 0)
          => LET p == paths_to_git[i]
                 tracking == Cardinality(Tracked(Config(i)))
             IN  /\ Len(Outcomes(i)) = RemoteCount(i)
                 /\ results[i][1].behind_count = tracking * refs[p]
                 /\ Outcomes(i)[1].status = "OK" =>
                       results[i][1].behind_count = tracking * upstream[p]

C35_Witness ==
    \E i \in ready :
        /\ results[i] # None
        /\ fetch_remotes
        /\ Len(Outcomes(i)) = 2
        /\ Outcomes(i)[1].status = "OK"
        /\ upstream[paths_to_git[i]] = 2
        /\ results[i][1].behind_count = 4

\* C36: a fetch that returned CANCEL is the last fetch of its read: no
\* further remote of the repository is fetched; the read returns a record
\* holding CANCEL only when that fetch was the one of the last remote, and
\* returns None when it was the fetch of an earlier remote.
C36_CancelIsLast ==
    \A i \in 1..N :
        /\ \A j \in 1..Len(Outcomes(i)) :
              Outcomes(i)[j].status = "CANCEL" =>
                 /\ j = Len(Outcomes(i))
                 /\ (i \in ready /\ j < RemoteCount(i)) => results[i] = None
        /\ (/\ i \in ready
            /\ results[i] # None
            /\ results[i][1].fetch_status # None
            /\ "CANCEL" \in results[i][1].fetch_status[1])
              => /\ Len(Outcomes(i)) = RemoteCount(i)
                 /\ Outcomes(i)[RemoteCount(i)].status = "CANCEL"

C36_Witness ==
    \E i \in ready :
        /\ results[i] = None
        /\ RemoteCount(i) = 2
        /\ Len(Outcomes(i)) = 1
        /\ Outcomes(i)[1].status = "CANCEL"

\* C37: a returned record of a repository with at least one remote whose
\* fetch_status is None (no fetch was attempted) has the warning "Remotes
\* not fetched", also when fetching was enabled and skipped for a bare
\* repository or one without a local branch.
C37_UnfetchedWarned ==
    \A i \in ready :
        (/\ results[i] # None
         /\ RemoteCount(i) > 0
         /\ results[i][1].fetch_status = None)
          => results[i][1].warning = Some(UNFETCHED_REMOTE_WARNING)

====
